---- MODULE Spec2Model ----
(***************************************************************************)
(* Payment confirmation, refund and application-lifecycle handlers of the  *)
(* career backend (routes/applications.js, utils/paystack.js) and its      *)
(* reminder scheduler (utils/scheduler.js), modelled as a state machine    *)
(* over the Application, User and Message collections.                     *)
(*                                                                         *)
(* Node runs one handler at a time and switches handlers only at an await. *)
(* An action is therefore one store (or gateway) operation together with   *)
(* the synchronous code that follows it up to the next await.  The arrival *)
(* of a request is merged with the first operation of its handler.         *)
(*                                                                         *)
(* Optional values (undefined / null in the code) are sequences: None is   *)
(* the absent value and Some(v) the present one.  Strings that the code    *)
(* takes apart (payment references, identifiers) are sequences of          *)
(* one-character strings.                                                  *)
(***************************************************************************)
EXTENDS Integers, Sequences, FiniteSets, TLC

\* Number of requests handled in one run of the model.
MaxReqs == 3

None == <<>>
Some(v) == <<v>>
IsSome(o) == o # <<>>
Val(o) == o[1]

\* a ?? b
Coalesce(a, b) == IF IsSome(a) THEN a ELSE b

Slots == 1..MaxReqs

\* Number of runs of the reminder sweep that can be in progress at once.
MaxSweeps == 3

SweepIds == 1..MaxSweeps

\* Last day of the model's clock.
MaxDay == 4

----------------------------------------------------------------------------
(* Identifiers, users, references *)

A1 == <<"a", "1">>
A2 == <<"a", "2">>
A3 == <<"a", "3">>
\* The identifiers Mongoose can cast to an ObjectId; any other string makes a
\* query by _id throw a CastError.
ObjectIds == {A1, A2, A3}

\* The order in which new ObjectIds are generated; none is generated twice.
IdSeq == <<A1, A2, A3>>

U1 == "u1"
U2 == "u2"
Users == {U1, U2}

Digits == {"0", "1", "2", "3", "4", "5", "6", "7", "8", "9"}

AppTag == <<"A", "P", "P", "-">>

\* `APP-${application._id}-${Date.now()}`
MkReference(id, millis) == AppTag \o id \o <<"-">> \o millis

\* reference.startsWith('APP-')
StartsWithAPP(s) == Len(s) >= Len(AppTag) /\ SubSeq(s, 1, Len(AppTag)) = AppTag

\* s.replace(/^APP-/, '')
StripTag(s) == IF StartsWithAPP(s) THEN SubSeq(s, Len(AppTag) + 1, Len(s)) ELSE s

\* Mutant: the digits are removed and the '-' before them is kept.
StripMillis_KeepsDash(s) ==
  LET dashes == {i \in 1..Len(s) : s[i] = "-"}
  IN IF dashes = {} THEN s
     ELSE LET last == CHOOSE i \in dashes : \A j \in dashes : j <= i
          IN IF last < Len(s) /\ \A k \in (last + 1)..Len(s) : s[k] \in Digits
             THEN SubSeq(s, 1, last)
             ELSE s

\* s.replace(/-\d+$/, ''): the match is the last '-' when one or more digits,
\* and nothing else, follow it.
StripMillis(s) ==
  LET dashes == {i \in 1..Len(s) : s[i] = "-"}
  IN IF dashes = {} THEN s
     ELSE LET last == CHOOSE i \in dashes : \A j \in dashes : j <= i
          IN IF last < Len(s) /\ \A k \in (last + 1)..Len(s) : s[k] \in Digits
             THEN SubSeq(s, 1, last - 1)
             ELSE s

\* reference.replace(/^APP-/, '').replace(/-\d+$/, '')
ExtractApplicationId(reference) == StripMillis(StripTag(reference))

\* String(n) for a non-negative integer
RECURSIVE ToDigits(_)
ToDigits(n) ==
  LET d == <<"0", "1", "2", "3", "4", "5", "6", "7", "8", "9">>[(n % 10) + 1]
  IN IF n < 10 THEN <<d>> ELSE ToDigits(n \div 10) \o <<d>>

\* Mutant: the amount of the gateway is stored as it comes.
ToMajor_Undivided(minor) == [units |-> minor, cents |-> 0]

\* Number(minor) / 100: a major-unit amount, kept exact as units and hundredths.
ToMajor(minor) == [units |-> minor \div 100, cents |-> minor % 100]

\* A major-unit amount given as a whole number (a fee).
Whole(n) == [units |-> n, cents |-> 0]

----------------------------------------------------------------------------
(* The gateway's transactions and the webhook payloads it sends *)

K1 == "sk_live_1"
K2 == "sk_forged"

\* The data object of a gateway transaction, as the webhook and the verify call
\* both receive it.  T1: card payment with a reusable authorization.  T2: a
\* second payment attempt for the same application, with another reference,
\* id and amount.  T3: a payload without id and amount.
Txs == {"T1", "T2", "T3"}

TxData(t) ==
  CASE t = "T1" -> [id |-> Some(11), reference |-> Some(MkReference(A1, <<"7">>)),
                    amount |-> Some(35000),
                    authorization |-> Some([authorization_code |-> Some("AUTH_11"),
                                            reusable |-> TRUE,
                                            last4 |-> Some("4081"),
                                            card_type |-> None]),
                    transfer_code |-> None, status |-> Some("success")]
    [] t = "T2" -> [id |-> Some(12), reference |-> Some(MkReference(A1, <<"8">>)),
                    amount |-> Some(50050),
                    authorization |-> Some([authorization_code |-> Some("AUTH_12"),
                                            reusable |-> FALSE,
                                            last4 |-> Some("1111"),
                                            card_type |-> Some("visa")]),
                    transfer_code |-> None, status |-> Some("success")]
    [] t = "T3" -> [id |-> None, reference |-> Some(MkReference(A1, <<"9">>)),
                    amount |-> None, authorization |-> None,
                    transfer_code |-> None, status |-> Some("success")]

NoData == [id |-> None, reference |-> None, amount |-> None, authorization |-> None,
           transfer_code |-> None, status |-> None]

TransferCode == <<"T", "R", "F", "1">>

\* The raw request bodies of the model.
RawBodies ==
  {"not json", "{}", "charge T1", "charge T2", "charge T3", "charge no tag",
   "charge bad id", "charge unknown app", "transfer success", "transfer failed",
   "transfer unknown"}

\* JSON.parse(rawBody): ok is FALSE when it throws a SyntaxError.
JsonParse(raw) ==
  CASE raw = "not json" -> [ok |-> FALSE, event |-> None, data |-> None]
    [] raw = "{}" -> [ok |-> TRUE, event |-> None, data |-> None]
    [] raw = "charge T1" -> [ok |-> TRUE, event |-> Some("charge.success"),
                             data |-> Some(TxData("T1"))]
    [] raw = "charge T2" -> [ok |-> TRUE, event |-> Some("charge.success"),
                             data |-> Some(TxData("T2"))]
    [] raw = "charge T3" -> [ok |-> TRUE, event |-> Some("charge.success"),
                             data |-> Some(TxData("T3"))]
    [] raw = "charge no tag" ->
         [ok |-> TRUE, event |-> Some("charge.success"),
          data |-> Some([NoData EXCEPT !.id = Some(13),
                                       !.reference = Some(<<"T", "-">> \o A1 \o <<"-", "7">>),
                                       !.amount = Some(35000)])]
    [] raw = "charge bad id" ->
         [ok |-> TRUE, event |-> Some("charge.success"),
          data |-> Some([NoData EXCEPT !.id = Some(14),
                                       !.reference = Some(MkReference(<<"z">>, <<"7">>)),
                                       !.amount = Some(35000)])]
    [] raw = "charge unknown app" ->
         [ok |-> TRUE, event |-> Some("charge.success"),
          data |-> Some([NoData EXCEPT !.id = Some(15),
                                       !.reference = Some(MkReference(A2, <<"7">>)),
                                       !.amount = Some(35000)])]
    [] raw = "transfer success" ->
         [ok |-> TRUE, event |-> Some("transfer.success"),
          data |-> Some([NoData EXCEPT !.transfer_code = Some(TransferCode),
                                       !.status = Some("success")])]
    [] raw = "transfer failed" ->
         [ok |-> TRUE, event |-> Some("transfer.failed"),
          data |-> Some([NoData EXCEPT !.transfer_code = Some(TransferCode),
                                       !.status = Some("failed")])]
    [] raw = "transfer unknown" ->
         [ok |-> TRUE, event |-> Some("transfer.success"),
          data |-> Some([NoData EXCEPT !.transfer_code = Some(<<"T", "R", "F", "9">>),
                                       !.status = Some("success")])]

\* crypto.createHmac('sha512', key).update(payload).digest('hex'): a digest is
\* determined by the key and the payload, and is 128 hex characters long.
HmacSha512Hex(key, payload) == [key |-> key, payload |-> payload, length |-> 128]

\* The x-paystack-signature headers of the model: absent, the digest under the
\* configured key, a digest under another key, a digest of another payload, and
\* a header of another length.
SignatureHeaders(raw) ==
  {None,
   Some(HmacSha512Hex(K1, raw)),
   Some(HmacSha512Hex(K2, raw)),
   Some(HmacSha512Hex(K1, "{}")),
   Some([HmacSha512Hex(K1, raw) EXCEPT !.length = 64])}

----------------------------------------------------------------------------
(* State *)

VARIABLES
  apps,        \* Application collection: ObjectId -> None | Some(document)
  users,       \* User collection: the stored payment authorization of each user
  messages,    \* Message collection: the payment_reminder entries per application
  secret,      \* process.env.PAYSTACK_SECRET_KEY
  reqs,        \* the requests: idle, at an await of their handler, or done
  out,         \* the HTTP response sent last
  confirmLog,  \* per application, the confirmation writes applied, in order
  claims,      \* per application, the refundedAt claims refund calls won and rolled back
  refundCalls, \* per application, the gateway refund requests made
  now,         \* Date.now(), in days
  sweeps,      \* the runs of checkAndSendReminders: idle or at an await
  minted,      \* the number of ObjectIds generated so far
  lastEmail,   \* what the reminder send made last was for, and what it returned
  cronTasks,   \* the cron expressions of the tasks node-cron has scheduled
  phoneCall,   \* the phone number given to the gateway client, and what came of it
  transferEvent, \* the raw body of the transfer event delivered last with a valid signature
  paymentLink  \* a payment followed from getPaymentLink to its confirmations

vars == <<apps, users, messages, secret, reqs, out, confirmLog, claims, refundCalls,
          now, sweeps, minted, lastEmail, cronTasks, phoneCall, transferEvent,
          paymentLink>>

O1 == "o1"

\* Opportunity.applicationFee of the opportunity the applications are for.
ApplicationFee(o) == IF o = O1 THEN Some(Whole(350)) ELSE None

\* What Application.create stores (status defaults to pending_payment); the
\* createdAt of an application of the initial state is day 0.
NewApplication(user, opp) ==
  [userId |-> user, opportunityId |-> opp, status |-> "pending_payment",
   paymentTransactionId |-> None, amountPaid |-> None, refundedAt |-> None,
   refundTransferCode |-> None, refundAmount |-> None, createdAt |-> 0]

NoAuthorization == [paystackAuthorizationCode |-> None, paystackCardLast4 |-> None,
                    paystackCardType |-> None]

Idle == [pc |-> "idle"]
Done == [pc |-> "done"]

\* The webhook handler after its promise was rejected: it has sent its 200 and
\* has no catch, so the error of an await is raised out of the handler.
Rejected == [pc |-> "rejected", kind |-> "webhook", acked |-> TRUE]

Response(status, message) == [status |-> status, message |-> message]

\* No call of chargeMpesa or createTransferRecipient made yet.
NoCall == [phone |-> None, chargeMpesa |-> None, createTransferRecipient |-> None,
          redialled |-> None]

\* The process after src/index.js ran, with the collections of the model.
Started ==
  /\ apps = [id \in ObjectIds |-> IF id = A1 THEN Some(NewApplication(U1, O1)) ELSE None]
  /\ messages = [id \in ObjectIds |-> 0]
  /\ secret \in {None, Some(K1)}
  /\ reqs = [r \in Slots |-> Idle]
  /\ out = Response(0, "")
  /\ confirmLog = [id \in ObjectIds |-> <<>>]
  /\ claims = [id \in ObjectIds |-> [won |-> 0, rolledBack |-> 0]]
  /\ refundCalls = [id \in ObjectIds |-> 0]
  /\ now = 0
  /\ sweeps = [s \in SweepIds |-> Idle]
  /\ minted = 1
  /\ lastEmail = None
  /\ cronTasks = {}
  /\ transferEvent = None

\* No user has paid with a reusable card yet.
NoCards == [u \in Users |-> NoAuthorization]

\* No payment is followed.
NoLink == [id |-> <<>>, millis |-> 0, fee |-> None, reference |-> None,
           amountInSmallest |-> None, webhook |-> None, verify |-> None, card |-> None]

Init == Started /\ users = NoCards /\ phoneCall = NoCall /\ paymentLink = NoLink

\* A request arrives in the first slot not yet used.
Arrives(r) == reqs[r] = Idle /\ \A q \in 1..(r - 1) : reqs[q] # Idle

Exists(id) == id \in ObjectIds /\ IsSome(apps[id])
Doc(id) == Val(apps[id])

----------------------------------------------------------------------------
(* Store operations *)

\* document.save() of a loaded document: Mongoose sends a $set of the paths
\* whose value was changed on the in-memory copy, filtered by _id alone.
SaveModified(stored, loaded, edited) ==
  [f \in DOMAIN stored |-> IF edited[f] # loaded[f] THEN edited[f] ELSE stored[f]]

\* Query.findOneAndUpdate / findByIdAndUpdate with a $set of one path.
SetPath(stored, path, value) == [stored EXCEPT ![path] = value]

\* String(a ?? b) of a number a and a string b.
StringOf(number, string) ==
  IF IsSome(number) THEN Some(ToDigits(Val(number))) ELSE string

----------------------------------------------------------------------------
(* paystackWebhookHandler *)

\* Mutant: verification is skipped while no secret is configured.
verifyWebhookSignature_FailOpen(payload, signature) ==
  IF ~IsSome(secret) THEN TRUE
  ELSE IF ~IsSome(signature) THEN FALSE
  ELSE LET hash == HmacSha512Hex(Val(secret), payload)
       IN IF hash.length # Val(signature).length THEN FALSE
          ELSE hash = Val(signature)

\* verifyWebhookSignature(payload, signature)
verifyWebhookSignature(payload, signature) ==
  IF ~IsSome(secret) \/ ~IsSome(signature) THEN FALSE
  ELSE LET hash == HmacSha512Hex(Val(secret), payload)
       IN IF hash.length # Val(signature).length THEN FALSE
          ELSE hash = Val(signature)

\* The in-memory edit of a confirmation: status, transaction id and, when the
\* gateway reports one, the amount in major units.
Confirmed(application, txId, amount) ==
  [application EXCEPT
     !.status = "submitted",
     !.paymentTransactionId = txId,
     !.amountPaid = IF IsSome(amount) THEN Some(ToMajor(Val(amount))) ELSE @]

\* String(id ?? reference)
WebhookTxId(data) == StringOf(data.id, data.reference)

\* auth?.authorization_code && auth?.reusable
Reusable(auth) ==
  IsSome(auth) /\ IsSome(Val(auth).authorization_code) /\ Val(auth).reusable

\* The update of User.findByIdAndUpdate(userId, {paystackAuthorizationCode, ...})
StoredAuthorization(auth) ==
  [paystackAuthorizationCode |-> Val(auth).authorization_code,
   paystackCardLast4 |-> Val(auth).last4,
   paystackCardType |-> Val(auth).card_type]

\* Mutant: a charge.success event is applied whatever the status of the
\* application.
WebhookAfterAck_AnyStatus(r, raw) ==
  LET body == JsonParse(raw)
      data == IF IsSome(body.data) THEN Val(body.data) ELSE NoData
      id == ExtractApplicationId(Val(data.reference))
      transferCode == IF IsSome(data.transfer_code) THEN data.transfer_code
                      ELSE StringOf(data.id, None)
      tied == {a \in ObjectIds : Exists(a) /\ IsSome(transferCode)
                                   /\ Doc(a).refundTransferCode = transferCode}
  IN IF ~body.ok \/ ~IsSome(body.data) THEN reqs' = [reqs EXCEPT ![r] = Done]
     ELSE IF body.event = Some("charge.success")
     THEN IF IsSome(data.reference) /\ StartsWithAPP(Val(data.reference))
             /\ id \notin ObjectIds
          THEN reqs' = [reqs EXCEPT ![r] = Rejected]
          ELSE IF IsSome(data.reference) /\ StartsWithAPP(Val(data.reference))
             /\ Exists(id)
          THEN reqs' = [reqs EXCEPT ![r] =
                 [kind |-> "webhook", pc |-> "save", acked |-> TRUE, id |-> id,
                  application |-> Doc(id), data |-> data]]
          ELSE reqs' = [reqs EXCEPT ![r] = Done]
     ELSE IF body.event \in {Some("transfer.success"), Some("transfer.failed")}
             /\ data.status = Some("success") /\ tied # {}
     THEN \E a \in tied :
            reqs' = [reqs EXCEPT ![r] =
              [kind |-> "webhook", pc |-> "saveTransfer", acked |-> TRUE, id |-> a,
               application |-> Doc(a), data |-> data]]
     ELSE reqs' = [reqs EXCEPT ![r] = Done]

\* Mutant: the transfer event is applied to any application.
WebhookAfterAck_AnyApplication(r, raw) ==
  LET body == JsonParse(raw)
      data == IF IsSome(body.data) THEN Val(body.data) ELSE NoData
      id == ExtractApplicationId(Val(data.reference))
      transferCode == IF IsSome(data.transfer_code) THEN data.transfer_code
                      ELSE StringOf(data.id, None)
      tied == {a \in ObjectIds : Exists(a) /\ IsSome(transferCode)}
  IN IF ~body.ok \/ ~IsSome(body.data) THEN reqs' = [reqs EXCEPT ![r] = Done]
     ELSE IF body.event = Some("charge.success")
     THEN IF IsSome(data.reference) /\ StartsWithAPP(Val(data.reference))
             /\ id \notin ObjectIds
          THEN reqs' = [reqs EXCEPT ![r] = Rejected]
          ELSE IF IsSome(data.reference) /\ StartsWithAPP(Val(data.reference))
             /\ Exists(id) /\ Doc(id).status = "pending_payment"
          THEN reqs' = [reqs EXCEPT ![r] =
                 [kind |-> "webhook", pc |-> "save", acked |-> TRUE, id |-> id,
                  application |-> Doc(id), data |-> data]]
          ELSE reqs' = [reqs EXCEPT ![r] = Done]
     ELSE IF body.event \in {Some("transfer.success"), Some("transfer.failed")}
             /\ data.status = Some("success") /\ tied # {}
     THEN \E a \in tied :
            reqs' = [reqs EXCEPT ![r] =
              [kind |-> "webhook", pc |-> "saveTransfer", acked |-> TRUE, id |-> a,
               application |-> Doc(a), data |-> data]]
     ELSE reqs' = [reqs EXCEPT ![r] = Done]

\* Mutant: a transfer event is applied whatever its status.
WebhookAfterAck_AnyTransferStatus(r, raw) ==
  LET body == JsonParse(raw)
      data == IF IsSome(body.data) THEN Val(body.data) ELSE NoData
      id == ExtractApplicationId(Val(data.reference))
      transferCode == IF IsSome(data.transfer_code) THEN data.transfer_code
                      ELSE StringOf(data.id, None)
      tied == {a \in ObjectIds : Exists(a) /\ IsSome(transferCode)
                                   /\ Doc(a).refundTransferCode = transferCode}
  IN IF ~body.ok \/ ~IsSome(body.data) THEN reqs' = [reqs EXCEPT ![r] = Done]
     ELSE IF body.event = Some("charge.success")
     THEN IF IsSome(data.reference) /\ StartsWithAPP(Val(data.reference))
             /\ id \notin ObjectIds
          THEN reqs' = [reqs EXCEPT ![r] = Rejected]
          ELSE IF IsSome(data.reference) /\ StartsWithAPP(Val(data.reference))
             /\ Exists(id) /\ Doc(id).status = "pending_payment"
          THEN reqs' = [reqs EXCEPT ![r] =
                 [kind |-> "webhook", pc |-> "save", acked |-> TRUE, id |-> id,
                  application |-> Doc(id), data |-> data]]
          ELSE reqs' = [reqs EXCEPT ![r] = Done]
     ELSE IF body.event \in {Some("transfer.success"), Some("transfer.failed")}
             /\ tied # {}
     THEN \E a \in tied :
            reqs' = [reqs EXCEPT ![r] =
              [kind |-> "webhook", pc |-> "saveTransfer", acked |-> TRUE, id |-> a,
               application |-> Doc(a), data |-> data]]
     ELSE reqs' = [reqs EXCEPT ![r] = Done]

\* Lines 271-296 and 313-318: the signature check, the acknowledgment, the
\* parse, and the lookup of the application the event is about.
WebhookAfterAck(r, raw) ==
  LET body == JsonParse(raw)
      data == IF IsSome(body.data) THEN Val(body.data) ELSE NoData
      id == ExtractApplicationId(Val(data.reference))
      transferCode == IF IsSome(data.transfer_code) THEN data.transfer_code
                      ELSE StringOf(data.id, None)
      tied == {a \in ObjectIds : Exists(a) /\ IsSome(transferCode)
                                   /\ Doc(a).refundTransferCode = transferCode}
  IN IF ~body.ok \/ ~IsSome(body.data) THEN reqs' = [reqs EXCEPT ![r] = Done]
     ELSE IF body.event = Some("charge.success")
     THEN IF IsSome(data.reference) /\ StartsWithAPP(Val(data.reference))
             /\ id \notin ObjectIds
          THEN reqs' = [reqs EXCEPT ![r] = Rejected]
          ELSE IF IsSome(data.reference) /\ StartsWithAPP(Val(data.reference))
             /\ Exists(id) /\ Doc(id).status = "pending_payment"
          THEN reqs' = [reqs EXCEPT ![r] =
                 [kind |-> "webhook", pc |-> "save", acked |-> TRUE, id |-> id,
                  application |-> Doc(id), data |-> data]]
          ELSE reqs' = [reqs EXCEPT ![r] = Done]
     ELSE IF body.event \in {Some("transfer.success"), Some("transfer.failed")}
             /\ data.status = Some("success") /\ tied # {}
     THEN \E a \in tied :
            reqs' = [reqs EXCEPT ![r] =
              [kind |-> "webhook", pc |-> "saveTransfer", acked |-> TRUE, id |-> a,
               application |-> Doc(a), data |-> data]]
     ELSE reqs' = [reqs EXCEPT ![r] = Done]

\* Line 313: the body parses, has data, and its event is transfer.success or
\* transfer.failed.
IsTransferEvent(raw) ==
  /\ JsonParse(raw).ok /\ IsSome(JsonParse(raw).data)
  /\ JsonParse(raw).event \in {Some("transfer.success"), Some("transfer.failed")}

\* Mutant: the 200 is not sent before the event is processed.
WebhookReceive_NoEarlyAck(r, raw, signature) ==
  /\ Arrives(r)
  /\ IF ~verifyWebhookSignature(raw, signature)
     THEN /\ out' = Response(401, "Invalid webhook signature")
          /\ reqs' = [reqs EXCEPT ![r] = Done]
     ELSE /\ UNCHANGED out
          /\ WebhookAfterAck(r, raw)
  /\ transferEvent' = IF verifyWebhookSignature(raw, signature) /\ IsTransferEvent(raw)
                      THEN Some(raw) ELSE transferEvent
  /\ UNCHANGED <<apps, users, messages, secret, cronTasks, phoneCall, paymentLink, now, sweeps, minted,
                 lastEmail, confirmLog, claims, refundCalls>>

WebhookReceive(r, raw, signature) ==
  /\ Arrives(r)
  /\ IF ~verifyWebhookSignature(raw, signature)
     THEN /\ out' = Response(401, "Invalid webhook signature")
          /\ reqs' = [reqs EXCEPT ![r] = Done]
     ELSE /\ out' = Response(200, "")
          /\ WebhookAfterAck(r, raw)
  /\ transferEvent' = IF verifyWebhookSignature(raw, signature) /\ IsTransferEvent(raw)
                      THEN Some(raw) ELSE transferEvent
  /\ UNCHANGED <<apps, users, messages, secret, cronTasks, phoneCall, paymentLink, now, sweeps, minted,
                 lastEmail, confirmLog, claims, refundCalls>>

\* Lines 297-301: application.save() of the confirmed application.  save()
\* rejects with DocumentNotFoundError when the document is gone; the handler
\* has no catch and its promise is rejected.
WebhookSave(r) ==
  LET q == reqs[r]
      txId == WebhookTxId(q.data)
      edited == Confirmed(q.application, txId, q.data.amount)
  IN /\ q.pc = "save" /\ q.kind = "webhook"
     /\ IF Exists(q.id)
        THEN /\ apps' = [apps EXCEPT ![q.id] = Some(SaveModified(Doc(q.id), q.application, edited))]
             /\ confirmLog' = [confirmLog EXCEPT ![q.id] =
                                 Append(@, [via |-> "webhook", data |-> q.data])]
             /\ reqs' = [reqs EXCEPT ![r] =
                           IF Reusable(q.data.authorization)
                           THEN [q EXCEPT !.pc = "saveUser"] ELSE Done]
        ELSE /\ reqs' = [reqs EXCEPT ![r] = Rejected]
             /\ UNCHANGED <<apps, confirmLog>>
     /\ UNCHANGED <<users, messages, secret, cronTasks, phoneCall, transferEvent, paymentLink, now, sweeps, minted,
                    lastEmail, out, claims, refundCalls>>

\* Lines 301-307: the reusable authorization is stored on the owner.
WebhookSaveUser(r) ==
  LET q == reqs[r]
  IN /\ q.pc = "saveUser" /\ q.kind = "webhook"
     /\ users' = [users EXCEPT ![q.application.userId] = StoredAuthorization(q.data.authorization)]
     /\ reqs' = [reqs EXCEPT ![r] = Done]
     /\ UNCHANGED <<apps, messages, secret, cronTasks, phoneCall, transferEvent, paymentLink, now, sweeps, minted,
                    lastEmail, out, confirmLog, claims, refundCalls>>

\* Lines 301-307 when the store refuses User.findByIdAndUpdate: the await
\* throws, nothing is stored on the user, and the handler's promise is rejected.
WebhookSaveUserFails(r) ==
  LET q == reqs[r]
  IN /\ q.pc = "saveUser" /\ q.kind = "webhook"
     /\ reqs' = [reqs EXCEPT ![r] = Rejected]
     /\ UNCHANGED <<apps, users, messages, secret, cronTasks, phoneCall, transferEvent, paymentLink, now,
                    sweeps, minted, lastEmail, out, confirmLog, claims, refundCalls>>

\* Lines 318-321: a transfer event stamps refundedAt on the application that
\* stores its transfer code.  The Date is identified by the call that took it.
WebhookSaveTransfer(r) ==
  LET q == reqs[r]
      edited == [q.application EXCEPT !.refundedAt = Some(r)]
  IN /\ q.pc = "saveTransfer" /\ q.kind = "webhook"
     /\ IF Exists(q.id)
        THEN /\ apps' = [apps EXCEPT ![q.id] = Some(SaveModified(Doc(q.id), q.application, edited))]
             /\ reqs' = [reqs EXCEPT ![r] = Done]
        ELSE /\ reqs' = [reqs EXCEPT ![r] = Rejected]
             /\ UNCHANGED apps
     /\ UNCHANGED <<users, messages, secret, cronTasks, phoneCall, transferEvent, paymentLink, now, sweeps, minted,
                    lastEmail, out, confirmLog, claims, refundCalls>>

----------------------------------------------------------------------------
(* router.post('/verify-payment') *)

\* The reference values of the request bodies of the model.
VerifyReferences ==
  {None, Some(<<"X", "-", "1">>), Some(MkReference(A2, <<"7">>))}
    \cup {TxData(t).reference : t \in Txs}

\* The gateway's transaction with the given reference, if any.
TxOfReference(reference) == {t \in Txs : TxData(t).reference = Some(reference)}

\* Mutant: the lookup does not filter on the caller.
VerifyPayment_AnyOwner(r, user, reference, outcome) ==
  LET id == ExtractApplicationId(Val(reference))
      known == TxOfReference(Val(reference))
      found == Exists(id) /\ Doc(id).status = "pending_payment"
      answer(status, message) ==
        /\ out' = Response(status, message)
        /\ reqs' = [reqs EXCEPT ![r] = Done]
  IN /\ Arrives(r)
     /\ IF ~IsSome(reference) THEN answer(400, "Reference is required")
        ELSE IF ~StartsWithAPP(Val(reference)) THEN answer(400, "Invalid reference")
        ELSE IF ~IsSome(secret) THEN answer(400, "PAYSTACK_SECRET_KEY is not set")
        ELSE IF outcome = "error" \/ known = {}
        THEN answer(400, "Transaction verification failed")
        ELSE IF outcome = "unpaid" THEN answer(200, "verified: false")
        ELSE IF id \notin ObjectIds THEN answer(400, "Cast to ObjectId failed")
        ELSE IF ~found THEN answer(200, "verified: true")
        ELSE /\ \E t \in known :
                  reqs' = [reqs EXCEPT ![r] =
                    [kind |-> "verify", pc |-> "save", id |-> id, user |-> user,
                     reference |-> reference, application |-> Doc(id), data |-> TxData(t)]]
             /\ UNCHANGED out
     /\ UNCHANGED <<apps, users, messages, secret, cronTasks, phoneCall, transferEvent, paymentLink, now, sweeps, minted,
                    lastEmail, confirmLog, claims, refundCalls>>

\* Mutant: a transaction that is not paid yet is answered as an error.
VerifyPayment_UnpaidIsError(r, user, reference, outcome) ==
  LET id == ExtractApplicationId(Val(reference))
      known == TxOfReference(Val(reference))
      found == Exists(id) /\ Doc(id).userId = user /\ Doc(id).status = "pending_payment"
      answer(status, message) ==
        /\ out' = Response(status, message)
        /\ reqs' = [reqs EXCEPT ![r] = Done]
  IN /\ Arrives(r)
     /\ IF ~IsSome(reference) THEN answer(400, "Reference is required")
        ELSE IF ~StartsWithAPP(Val(reference)) THEN answer(400, "Invalid reference")
        ELSE IF ~IsSome(secret) THEN answer(400, "PAYSTACK_SECRET_KEY is not set")
        ELSE IF outcome = "error" \/ known = {}
        THEN answer(400, "Transaction verification failed")
        ELSE IF outcome = "unpaid" THEN answer(400, "Payment not completed")
        ELSE IF id \notin ObjectIds THEN answer(400, "Cast to ObjectId failed")
        ELSE IF ~found THEN answer(200, "verified: true")
        ELSE /\ \E t \in known :
                  reqs' = [reqs EXCEPT ![r] =
                    [kind |-> "verify", pc |-> "save", id |-> id, user |-> user,
                     reference |-> reference, application |-> Doc(id), data |-> TxData(t)]]
             /\ UNCHANGED out
     /\ UNCHANGED <<apps, users, messages, secret, cronTasks, phoneCall, transferEvent, paymentLink, now, sweeps, minted,
                    lastEmail, confirmLog, claims, refundCalls>>

\* Lines 329-346: validation, verifyTransaction, and the lookup of the caller's
\* pending application.  outcome is the gateway's answer: "error" (it cannot be
\* reached or refuses), "unpaid" (the transaction is not successful yet) or
\* "paid".  A reference the gateway does not know is an error.
VerifyPayment(r, user, reference, outcome) ==
  LET id == ExtractApplicationId(Val(reference))
      known == TxOfReference(Val(reference))
      found == Exists(id) /\ Doc(id).userId = user /\ Doc(id).status = "pending_payment"
      answer(status, message) ==
        /\ out' = Response(status, message)
        /\ reqs' = [reqs EXCEPT ![r] = Done]
  IN /\ Arrives(r)
     /\ IF ~IsSome(reference) THEN answer(400, "Reference is required")
        ELSE IF ~StartsWithAPP(Val(reference)) THEN answer(400, "Invalid reference")
        ELSE IF ~IsSome(secret) THEN answer(400, "PAYSTACK_SECRET_KEY is not set")
        ELSE IF outcome = "error" \/ known = {}
        THEN answer(400, "Transaction verification failed")
        ELSE IF outcome = "unpaid" THEN answer(200, "verified: false")
        ELSE IF id \notin ObjectIds THEN answer(400, "Cast to ObjectId failed")
        ELSE IF ~found THEN answer(200, "verified: true")
        ELSE /\ \E t \in known :
                  reqs' = [reqs EXCEPT ![r] =
                    [kind |-> "verify", pc |-> "save", id |-> id, user |-> user,
                     reference |-> reference, application |-> Doc(id), data |-> TxData(t)]]
             /\ UNCHANGED out
     /\ UNCHANGED <<apps, users, messages, secret, cronTasks, phoneCall, transferEvent, paymentLink, now, sweeps, minted,
                    lastEmail, confirmLog, claims, refundCalls>>

\* Mutant: the verify path stores the reference instead of the transaction id.
VerifyTxId_ReferenceOnly(data, reference) == Coalesce(data.reference, reference)

\* String(tx.id ?? tx.reference ?? reference)
VerifyTxId(data, reference) == StringOf(data.id, Coalesce(data.reference, reference))

\* Lines 347-352: application.save() of the confirmed application; a rejected
\* save is caught and answered 400.
VerifySave(r) ==
  LET q == reqs[r]
      txId == VerifyTxId(q.data, q.reference)
      edited == Confirmed(q.application, txId, q.data.amount)
  IN /\ q.pc = "save" /\ q.kind = "verify"
     /\ IF Exists(q.id)
        THEN /\ apps' = [apps EXCEPT ![q.id] = Some(SaveModified(Doc(q.id), q.application, edited))]
             /\ confirmLog' = [confirmLog EXCEPT ![q.id] =
                                 Append(@, [via |-> "verify", data |-> q.data])]
             /\ IF Reusable(q.data.authorization)
                THEN /\ reqs' = [reqs EXCEPT ![r] = [q EXCEPT !.pc = "saveUser"]]
                     /\ UNCHANGED out
                ELSE /\ reqs' = [reqs EXCEPT ![r] = Done]
                     /\ out' = Response(200, "verified: true")
        ELSE /\ reqs' = [reqs EXCEPT ![r] = Done]
             /\ out' = Response(400, "No document found")
             /\ UNCHANGED <<apps, confirmLog>>
     /\ UNCHANGED <<users, messages, secret, cronTasks, phoneCall, transferEvent, paymentLink, now, sweeps, minted,
                    lastEmail, claims, refundCalls>>

\* Lines 352-361: the reusable authorization is stored on the caller.
VerifySaveUser(r) ==
  LET q == reqs[r]
  IN /\ q.pc = "saveUser" /\ q.kind = "verify"
     /\ users' = [users EXCEPT ![q.user] = StoredAuthorization(q.data.authorization)]
     /\ reqs' = [reqs EXCEPT ![r] = Done]
     /\ out' = Response(200, "verified: true")
     /\ UNCHANGED <<apps, messages, secret, cronTasks, phoneCall, transferEvent, paymentLink, now, sweeps, minted,
                    lastEmail, confirmLog, claims, refundCalls>>

\* Lines 352-363 when the store refuses User.findByIdAndUpdate: the await
\* throws inside the try, and the catch answers 400 with verified: false.
VerifySaveUserFails(r) ==
  LET q == reqs[r]
  IN /\ q.pc = "saveUser" /\ q.kind = "verify"
     /\ reqs' = [reqs EXCEPT ![r] = Done]
     /\ out' = Response(400, "verified: false")
     /\ UNCHANGED <<apps, users, messages, secret, cronTasks, phoneCall, transferEvent, paymentLink, now,
                    sweeps, minted, lastEmail, confirmLog, claims, refundCalls>>

----------------------------------------------------------------------------
(* router.post('/:id/charge-saved-card') *)

\* The answers of the gateway to chargeAuthorization: data.status false
\* ("error"), and the charge statuses failed, pending and success.
ChargeOutcomes == {"error", "failed", "pending", "success"}

\* opp?.applicationFee ?? 350
FeeOf(opportunityId) == Val(Coalesce(ApplicationFee(opportunityId), Some(Whole(350))))

\* Lines 390-410: User.findById, Application.findOne({_id, userId, status:
\* 'pending_payment'}) and chargeAuthorization.  The two reads are one step: a
\* stored authorization code is replaced but never removed, so the caller has
\* a card at the second read whenever it had one at the first.
ChargeSavedCard(r, user, id, outcome) ==
  LET found == Exists(id) /\ Doc(id).userId = user /\ Doc(id).status = "pending_payment"
      answer(status, message) ==
        /\ out' = Response(status, message)
        /\ reqs' = [reqs EXCEPT ![r] = Done]
  IN /\ Arrives(r)
     /\ IF ~IsSome(users[user].paystackAuthorizationCode)
        THEN answer(400, "No saved card. Please use Pay now or M-Pesa.")
        ELSE IF id \notin ObjectIds THEN answer(400, "Cast to ObjectId failed")
        ELSE IF ~found THEN answer(404, "Application not found")
        ELSE IF ~IsSome(secret) THEN answer(400, "PAYSTACK_SECRET_KEY is not set")
        ELSE IF outcome = "error" THEN answer(400, "Charge failed")
        ELSE IF outcome = "failed" THEN answer(400, "Payment could not be processed")
        ELSE IF outcome # "success"
        THEN answer(200, "Charge initiated. Payment may take a moment to confirm.")
        ELSE /\ reqs' = [reqs EXCEPT ![r] =
                  [kind |-> "card", pc |-> "save", id |-> id, user |-> user,
                   application |-> Doc(id), reference |-> MkReference(id, <<"5">>),
                   amount |-> FeeOf(Doc(id).opportunityId)]]
             /\ UNCHANGED out
     /\ UNCHANGED <<apps, users, messages, secret, cronTasks, phoneCall, transferEvent, paymentLink, now, sweeps, minted,
                    lastEmail, confirmLog, claims, refundCalls>>

\* Mutant: the charge is stored without the status.
Charged_StatusLeft(application, reference, amount) ==
  [application EXCEPT !.paymentTransactionId = Some(reference),
                      !.amountPaid = Some(amount)]

\* Lines 412-414: status, paymentTransactionId = result.reference, amountPaid =
\* amount.
Charged(application, reference, amount) ==
  [application EXCEPT !.status = "submitted",
                      !.paymentTransactionId = Some(reference),
                      !.amountPaid = Some(amount)]

\* Lines 415-421: application.save() of the charged application; a rejected
\* save is caught and answered 400.
ChargeSave(r) ==
  LET q == reqs[r]
      edited == Charged(q.application, q.reference, q.amount)
  IN /\ q.pc = "save" /\ q.kind = "card"
     /\ reqs' = [reqs EXCEPT ![r] = Done]
     /\ IF Exists(q.id)
        THEN /\ apps' = [apps EXCEPT ![q.id] = Some(SaveModified(Doc(q.id), q.application, edited))]
             /\ confirmLog' = [confirmLog EXCEPT ![q.id] =
                                 Append(@, [via |-> "card",
                                            data |-> [NoData EXCEPT !.reference = Some(q.reference)]])]
             /\ out' = Response(200, "Payment successful.")
        ELSE /\ out' = Response(400, "No document found")
             /\ UNCHANGED <<apps, confirmLog>>
     /\ UNCHANGED <<users, messages, secret, cronTasks, phoneCall, transferEvent, paymentLink, now, sweeps, minted,
                    lastEmail, claims, refundCalls>>

----------------------------------------------------------------------------
(* router.patch('/admin/:id/status') *)

Statuses ==
  {"pending_payment", "submitted", "under_review", "shortlisted", "rejected", "accepted"}

\* Mutant: the status of a new application is accepted as well.
allowed_WithPending ==
  {"pending_payment", "submitted", "under_review", "shortlisted", "rejected", "accepted"}

allowed == {"submitted", "under_review", "shortlisted", "rejected", "accepted"}

\* The :id parameters of the requests of the model; <<"z">> is no ObjectId.
ParamIds == ObjectIds \cup {<<"z">>}

\* The status values of the request bodies of the model.
StatusInputs == {None, Some("archived")} \cup {Some(s) : s \in Statuses}

AdminSetStatus(r, id, status) ==
  /\ Arrives(r)
  /\ reqs' = [reqs EXCEPT ![r] = Done]
  /\ IF ~IsSome(status) \/ Val(status) \notin allowed
     THEN out' = Response(400, "Invalid status") /\ UNCHANGED apps
     ELSE IF id \notin ObjectIds
     THEN out' = Response(500, "Cast to ObjectId failed") /\ UNCHANGED apps
     ELSE IF ~Exists(id)
     THEN out' = Response(404, "Application not found") /\ UNCHANGED apps
     ELSE /\ apps' = [apps EXCEPT ![id] = Some(SetPath(Doc(id), "status", Val(status)))]
          /\ out' = Response(200, "")
  /\ UNCHANGED <<users, messages, secret, cronTasks, phoneCall, transferEvent, paymentLink, now, sweeps, minted,
                 lastEmail, confirmLog, claims, refundCalls>>

----------------------------------------------------------------------------
(* router.post('/admin/:id/refund') *)

\* The statuses of line 73: payment confirmed.
PaidStatuses == {"submitted", "under_review", "shortlisted", "rejected", "accepted"}

\* Mutant: the claim matches on _id alone.
RefundClaimMatches_AnyRefundedAt(id) == Exists(id)

\* The filter of line 63-66: {_id: req.params.id, refundedAt: null}
RefundClaimMatches(id) == Exists(id) /\ ~IsSome(Doc(id).refundedAt)

\* Lines 62-80: findOneAndUpdate({_id, refundedAt: null}, {$set: {refundedAt:
\* new Date()}}, {new: true}) and the checks on the document it returns.  The
\* Date is identified by the call that took it.
RefundClaim(r, id) ==
  LET application == SetPath(Doc(id), "refundedAt", Some(r))
      txId == application.paymentTransactionId
      answer(status, message) ==
        /\ out' = Response(status, message)
        /\ reqs' = [reqs EXCEPT ![r] = Done]
  IN /\ Arrives(r)
     /\ IF id \notin ObjectIds
        THEN answer(400, "Cast to ObjectId failed") /\ UNCHANGED <<apps, claims>>
        ELSE IF ~RefundClaimMatches(id)
        THEN /\ answer(404, "Application not found or already refunded")
             /\ UNCHANGED <<apps, claims>>
        ELSE /\ apps' = [apps EXCEPT ![id] = Some(application)]
             /\ claims' = [claims EXCEPT ![id].won = @ + 1]
             /\ IF application.status \notin PaidStatuses
                THEN answer(400, "Cannot refund application that has not been paid")
                ELSE /\ reqs' = [reqs EXCEPT ![r] =
                           [kind |-> "refund", id |-> id, application |-> application,
                            pc |-> IF ~IsSome(txId) \/ Val(txId) = <<>>
                                   THEN "rollback" ELSE "gateway"]]
                     /\ UNCHANGED out
     /\ UNCHANGED <<users, messages, secret, cronTasks, phoneCall, transferEvent, paymentLink, now, sweeps, minted,
                    lastEmail, confirmLog, refundCalls>>

\* Mutant: the claim is not rolled back.
RefundRollback_NoUnset(r) ==
  LET q == reqs[r]
  IN /\ q.pc = "rollback" /\ q.kind = "refund"
     /\ claims' = [claims EXCEPT ![q.id].rolledBack = @ + 1]
     /\ out' = Response(400, "No payment transaction to refund")
     /\ reqs' = [reqs EXCEPT ![r] = Done]
     /\ UNCHANGED <<apps, users, messages, secret, cronTasks, phoneCall, transferEvent, paymentLink, now, sweeps, minted,
                    lastEmail, confirmLog, refundCalls>>

\* Lines 77-80: no transaction id: findByIdAndUpdate($unset refundedAt), 400.
RefundRollback(r) ==
  LET q == reqs[r]
  IN /\ q.pc = "rollback" /\ q.kind = "refund"
     /\ apps' = [apps EXCEPT ![q.id] =
                   IF Exists(q.id) THEN Some(SetPath(Doc(q.id), "refundedAt", None)) ELSE @]
     /\ claims' = [claims EXCEPT ![q.id].rolledBack = @ + 1]
     /\ out' = Response(400, "No payment transaction to refund")
     /\ reqs' = [reqs EXCEPT ![r] = Done]
     /\ UNCHANGED <<users, messages, secret, cronTasks, phoneCall, transferEvent, paymentLink, now, sweeps, minted,
                    lastEmail, confirmLog, refundCalls>>

\* application.amountPaid ?? application.opportunityId?.applicationFee ?? 350
RefundAmountOf(application) ==
  Val(Coalesce(application.amountPaid,
               Coalesce(ApplicationFee(application.opportunityId), Some(Whole(350)))))

\* Lines 81-82 and refundTransaction: the request to the gateway's refund
\* endpoint, which the gateway accepts (ok) or rejects; a rejection is thrown,
\* caught and answered 400.  Without a secret key no request is made.
RefundGateway(r, ok) ==
  LET q == reqs[r]
  IN /\ q.pc = "gateway" /\ q.kind = "refund"
     /\ IF ~IsSome(secret)
        THEN /\ out' = Response(400, "PAYSTACK_SECRET_KEY is not set")
             /\ reqs' = [reqs EXCEPT ![r] = Done]
             /\ UNCHANGED refundCalls
        ELSE /\ refundCalls' = [refundCalls EXCEPT ![q.id] = @ + 1]
             /\ IF ok
                THEN /\ reqs' = [reqs EXCEPT ![r] = [q EXCEPT !.pc = "setAmount"]]
                     /\ UNCHANGED out
                ELSE /\ reqs' = [reqs EXCEPT ![r] = Done]
                     /\ out' = Response(400, "Refund failed")
     /\ UNCHANGED <<apps, users, messages, secret, cronTasks, phoneCall, transferEvent, paymentLink, now, sweeps, minted,
                    lastEmail, confirmLog, claims>>

\* Lines 83-84: findByIdAndUpdate($set refundAmount), 200.
RefundSetAmount(r) ==
  LET q == reqs[r]
  IN /\ q.pc = "setAmount" /\ q.kind = "refund"
     /\ apps' = [apps EXCEPT ![q.id] =
                   IF Exists(q.id)
                   THEN Some(SetPath(Doc(q.id), "refundAmount", Some(RefundAmountOf(q.application))))
                   ELSE @]
     /\ out' = Response(200, "Refund initiated")
     /\ reqs' = [reqs EXCEPT ![r] = Done]
     /\ UNCHANGED <<users, messages, secret, cronTasks, phoneCall, transferEvent, paymentLink, now, sweeps, minted,
                    lastEmail, confirmLog, claims, refundCalls>>

----------------------------------------------------------------------------
(* router.post('/admin/transfer-mpesa') *)

CountryCode == <<"2", "5", "4">>

StartsWith(s, prefix) == Len(s) >= Len(prefix) /\ SubSeq(s, 1, Len(prefix)) = prefix

\* String(phone || '').replace(/\s/g, '').replace(/^\+/, ''), then the country
\* prefix: a leading 0 is replaced by 254, a number without 254 gets it.
NormalizePhone(phone) ==
  LET given == IF IsSome(phone) THEN Val(phone) ELSE <<>>
      dense == SelectSeq(given, LAMBDA c : c # " ")
      bare == IF StartsWith(dense, <<"+">>) THEN Tail(dense) ELSE dense
  IN IF StartsWith(bare, <<"0">>) THEN CountryCode \o Tail(bare)
     ELSE IF ~StartsWith(bare, CountryCode) THEN CountryCode \o bare
     ELSE bare

\* normalized.length < 12 throws 'Invalid phone number'
ValidPhone(phone) == Len(NormalizePhone(phone)) >= 12

\* The phone values of the request bodies of the model.
PhoneInputs ==
  {None, Some(<<"0", "7", "1", "2", "3", "4", "5", "6", "7", "8">>),
   Some(<<"7", "1", "2", "3", "4", "5">>)}

\* The amount values of the request bodies of the model.
AmountInputs == {None, Some(200)}

\* Mutant: the application is stamped although the transfer request failed.
TransferMpesa_FailedTransferSaved(r, amount, phone, applicationId, outcome) ==
  LET answer(status, message) ==
        /\ out' = Response(status, message)
        /\ reqs' = [reqs EXCEPT ![r] = Done]
  IN /\ Arrives(r)
     /\ IF ~IsSome(amount) \/ ~IsSome(phone)
        THEN answer(400, "Amount and phone number are required")
        ELSE IF ~IsSome(secret) THEN answer(400, "PAYSTACK_SECRET_KEY is not set")
        ELSE IF ~ValidPhone(phone) THEN answer(400, "Invalid phone number")
        ELSE IF outcome = "no recipient" THEN answer(400, "Create recipient failed")
        ELSE IF ~IsSome(applicationId) THEN answer(200, "Transfer initiated")
        ELSE IF Val(applicationId) \notin ObjectIds THEN answer(400, "Cast to ObjectId failed")
        ELSE IF ~Exists(Val(applicationId)) THEN answer(200, "Transfer initiated")
        ELSE /\ reqs' = [reqs EXCEPT ![r] =
                  [kind |-> "transfer", pc |-> "save", id |-> Val(applicationId),
                   application |-> Doc(Val(applicationId)), amount |-> Val(amount)]]
             /\ UNCHANGED out
     /\ UNCHANGED <<apps, users, messages, secret, cronTasks, phoneCall, transferEvent, paymentLink, now, sweeps, minted,
                    lastEmail, confirmLog, claims, refundCalls>>

\* Lines 93-118: validation, createTransferRecipient, initiateTransfer, and the
\* lookup of the application the transfer is tied to.  outcome is the gateway's
\* answer: "no recipient", "no transfer" or "ok".
TransferMpesa(r, amount, phone, applicationId, outcome) ==
  LET answer(status, message) ==
        /\ out' = Response(status, message)
        /\ reqs' = [reqs EXCEPT ![r] = Done]
  IN /\ Arrives(r)
     /\ IF ~IsSome(amount) \/ ~IsSome(phone)
        THEN answer(400, "Amount and phone number are required")
        ELSE IF ~IsSome(secret) THEN answer(400, "PAYSTACK_SECRET_KEY is not set")
        ELSE IF ~ValidPhone(phone) THEN answer(400, "Invalid phone number")
        ELSE IF outcome = "no recipient" THEN answer(400, "Create recipient failed")
        ELSE IF outcome = "no transfer" THEN answer(400, "Transfer failed")
        ELSE IF ~IsSome(applicationId) THEN answer(200, "Transfer initiated")
        ELSE IF Val(applicationId) \notin ObjectIds THEN answer(400, "Cast to ObjectId failed")
        ELSE IF ~Exists(Val(applicationId)) THEN answer(200, "Transfer initiated")
        ELSE /\ reqs' = [reqs EXCEPT ![r] =
                  [kind |-> "transfer", pc |-> "save", id |-> Val(applicationId),
                   application |-> Doc(Val(applicationId)), amount |-> Val(amount)]]
             /\ UNCHANGED out
     /\ UNCHANGED <<apps, users, messages, secret, cronTasks, phoneCall, transferEvent, paymentLink, now, sweeps, minted,
                    lastEmail, confirmLog, claims, refundCalls>>

\* Lines 113-123: app.save() of refundedAt, refundAmount and refundTransferCode.
TransferSave(r) ==
  LET q == reqs[r]
      edited == [q.application EXCEPT !.refundedAt = Some(r),
                                      !.refundAmount = Some(Whole(q.amount)),
                                      !.refundTransferCode = Some(TransferCode)]
  IN /\ q.pc = "save" /\ q.kind = "transfer"
     /\ reqs' = [reqs EXCEPT ![r] = Done]
     /\ IF Exists(q.id)
        THEN /\ apps' = [apps EXCEPT ![q.id] = Some(SaveModified(Doc(q.id), q.application, edited))]
             /\ out' = Response(200, "Transfer initiated")
        ELSE /\ out' = Response(400, "No document found")
             /\ UNCHANGED apps
     /\ UNCHANGED <<users, messages, secret, cronTasks, phoneCall, transferEvent, paymentLink, now, sweeps, minted,
                    lastEmail, confirmLog, claims, refundCalls>>

----------------------------------------------------------------------------
(* chargeMpesa and createTransferRecipient: the phone number *)

\* Mutant: chargeMpesa keeps a leading '+'.
chargeMpesaNormalized_KeepPlus(phone) ==
  LET given == IF IsSome(phone) THEN Val(phone) ELSE <<>>
      dense == SelectSeq(given, LAMBDA c : c # " ")
  IN IF StartsWith(dense, <<"0">>) THEN CountryCode \o Tail(dense)
     ELSE IF ~StartsWith(dense, CountryCode) THEN CountryCode \o dense
     ELSE dense

\* chargeMpesa, lines 91-93: String(phone || '') without whitespace and without
\* one leading '+'; a leading 0 becomes 254, a number without 254 gets it.
chargeMpesaNormalized(phone) ==
  LET given == IF IsSome(phone) THEN Val(phone) ELSE <<>>
      dense == SelectSeq(given, LAMBDA c : c # " ")
      bare == IF StartsWith(dense, <<"+">>) THEN Tail(dense) ELSE dense
  IN IF StartsWith(bare, <<"0">>) THEN CountryCode \o Tail(bare)
     ELSE IF ~StartsWith(bare, CountryCode) THEN CountryCode \o bare
     ELSE bare

\* What a call of the gateway client comes to before its fetch: the error it
\* throws, or the normalized number and the phone field of the request body.
Threw(message) == [ok |-> FALSE, message |-> message, normalized |-> <<>>, sent |-> <<>>]
Sends(normalized, sent) ==
  [ok |-> TRUE, message |-> "", normalized |-> normalized, sent |-> sent]

\* chargeMpesa, lines 88-96: phoneFormatted = '+' + normalized.
chargeMpesa(phone) ==
  LET normalized == chargeMpesaNormalized(phone)
  IN IF ~IsSome(secret) THEN Threw("PAYSTACK_SECRET_KEY is not set")
     ELSE IF Len(normalized) < 12 THEN Threw("Invalid phone number")
     ELSE Sends(normalized, <<"+">> \o normalized)

\* createTransferRecipient, lines 203-209: accountNumber = '0' + normalized.slice(3).
createTransferRecipient(phone) ==
  LET normalized == NormalizePhone(phone)
  IN IF ~IsSome(secret) THEN Threw("PAYSTACK_SECRET_KEY is not set")
     ELSE IF ~ValidPhone(phone) THEN Threw("Invalid phone number")
     ELSE Sends(normalized, <<"0">> \o SubSeq(normalized, 4, Len(normalized)))

\* The subscriber numbers of the model (nine digits, as M-Pesa numbers are:
\* 7xx xxx xxx and 1xx xxx xxx).
Subscribers ==
  {<<"7", "1", "2", "3", "4", "5", "6", "7", "8">>,
   <<"7", "2", "5", "4", "0", "0", "0", "0", "1">>,
   <<"1", "1", "0", "2", "5", "4", "2", "5", "4">>}

\* 0712 345 678 as the user may type it: with blanks after the third and the
\* sixth character.
Spaced(s) == SubSeq(s, 1, 3) \o <<" ">> \o SubSeq(s, 4, 6) \o <<" ">> \o SubSeq(s, 7, Len(s))

\* The ways of writing one subscriber's number: local, bare, with the country
\* code, with '+' and the country code, and the local and '+' ones with blanks.
Forms(sub) ==
  {Some(<<"0">> \o sub), Some(sub), Some(CountryCode \o sub),
   Some(<<"+">> \o CountryCode \o sub), Some(Spaced(<<"0">> \o sub)),
   Some(Spaced(<<"+">> \o CountryCode \o sub))}

\* Numbers too short to be one: six digits, a local and a prefixed number one
\* digit short, the empty string and no phone at all.
ShortPhones ==
  {None, Some(<<>>), Some(<<"7", "1", "2", "3", "4", "5">>),
   Some(<<"0", "7", "1", "2", "3", "4", "5", "6", "7">>),
   Some(<<"2", "5", "4", "7", "1", "2", "3", "4", "5", "6", "7">>),
   Some(<<"+", "2", "5", "4", "7", "1", "2">>)}

\* The phone arguments of the model.
PhoneArguments == ShortPhones \cup UNION {Forms(sub) : sub \in Subscribers}

\* The state in which the gateway client is about to be called with a phone.
InitPhone ==
  /\ Started
  /\ users = NoCards
  /\ paymentLink = NoLink
  /\ \E phone \in PhoneArguments : phoneCall = [NoCall EXCEPT !.phone = phone]

\* A call of chargeMpesa with the phone of the state.
ChargeMpesaCall ==
  /\ ~IsSome(phoneCall.chargeMpesa)
  /\ phoneCall' = [phoneCall EXCEPT !.chargeMpesa = Some(chargeMpesa(phoneCall.phone))]
  /\ UNCHANGED <<apps, users, messages, secret, cronTasks, transferEvent, paymentLink, reqs, out, confirmLog, claims,
                 refundCalls, now, sweeps, minted, lastEmail>>

\* A call of createTransferRecipient with the phone of the state.
CreateTransferRecipientCall ==
  /\ ~IsSome(phoneCall.createTransferRecipient)
  /\ phoneCall' = [phoneCall EXCEPT
       !.createTransferRecipient = Some(createTransferRecipient(phoneCall.phone))]
  /\ UNCHANGED <<apps, users, messages, secret, cronTasks, transferEvent, paymentLink, reqs, out, confirmLog, claims,
                 refundCalls, now, sweeps, minted, lastEmail>>

\* The number a call accepted is given again: as normalized, or as sent.
Redial(result) ==
  /\ ~IsSome(phoneCall.redialled)
  /\ IsSome(result) /\ Val(result).ok
  /\ \E again \in {Val(result).normalized, Val(result).sent} :
       phoneCall' = [NoCall EXCEPT !.phone = Some(again),
                                   !.redialled = Some(Val(result).normalized)]
  /\ UNCHANGED <<apps, users, messages, secret, cronTasks, transferEvent, paymentLink, reqs, out, confirmLog, claims,
                 refundCalls, now, sweeps, minted, lastEmail>>

----------------------------------------------------------------------------
(* router.post('/') *)

O2 == "o2"

\* The Opportunity collection: O1 is open, O2 is closed (isActive false).
Opportunities == {O1, O2}

isActive(o) == o = O1

\* The uploaded files of the model: a PDF, a PDF named .exe, a PDF sent as
\* text/plain, a four-byte file, and a .pdf that holds something else.
Pdf == [originalname |-> "cv.pdf", mimetype |-> "application/pdf", length |-> 900,
        magic |-> "%PDF"]

FileInputs ==
  {None, Some(Pdf),
   Some([Pdf EXCEPT !.originalname = "cv.exe"]),
   Some([Pdf EXCEPT !.mimetype = "text/plain"]),
   Some([Pdf EXCEPT !.length = 4]),
   Some([Pdf EXCEPT !.magic = "GIF8"])}

\* validateDocFile(file): the message of the failed check, or "valid".
validateDocFile(file) ==
  IF ~IsSome(file) THEN "Invalid file"
  ELSE IF Val(file).originalname \notin {"cv.pdf", "cv.doc", "cv.docx"}
  THEN "Only PDF, DOC, and DOCX files are allowed"
  ELSE IF Val(file).mimetype \notin {"application/pdf", "application/msword",
            "application/vnd.openxmlformats-officedocument.wordprocessingml.document"}
  THEN "Invalid file type"
  ELSE IF Val(file).length < 8 THEN "File too small or corrupted"
  ELSE IF Val(file).magic \notin {"%PDF", "PK", "DOC"}
  THEN "File content does not match allowed types (PDF, DOC, DOCX)"
  ELSE "valid"

\* The applications Application.findOne({userId, opportunityId}) can return.
ApplicationsOf(user, opportunityId) ==
  {id \in ObjectIds : /\ Exists(id)
                      /\ Doc(id).userId = user
                      /\ Doc(id).opportunityId = opportunityId}

\* Mutant: the collection has no unique index.
UniqueIndexAllows_NoIndex(user, opportunityId) == TRUE

\* applicationSchema.index({userId: 1, opportunityId: 1}, {unique: true}): an
\* insert is accepted when no document holds the same pair.
UniqueIndexAllows(user, opportunityId) == ApplicationsOf(user, opportunityId) = {}

\* The apply calls between their lookup and their write that will insert.
PendingInserts ==
  {q \in Slots : reqs[q].pc = "store" /\ reqs[q].existing = None}

\* Lines 206-227: Opportunity.findById, Application.findOne({userId,
\* opportunityId}) and the checks of the resume.  A call arrives while an
\* ObjectId of the model is left for it.
ApplyFind(r, user, opportunityId, resume) ==
  LET found == ApplicationsOf(user, opportunityId)
      answer(status, message) ==
        /\ out' = Response(status, message)
        /\ reqs' = [reqs EXCEPT ![r] = Done]
  IN /\ Arrives(r)
     /\ minted + Cardinality(PendingInserts) < Len(IdSeq)
     /\ IF opportunityId \notin Opportunities THEN answer(404, "Opportunity not found")
        ELSE IF ~isActive(opportunityId) THEN answer(400, "Opportunity is closed")
        ELSE IF \E id \in found : Doc(id).status # "pending_payment"
        THEN answer(400, "You have already applied")
        ELSE IF ~IsSome(resume) THEN answer(400, "Resume is required")
        ELSE IF validateDocFile(resume) # "valid" THEN answer(400, validateDocFile(resume))
        ELSE /\ \E existing \in (IF found = {} THEN {None} ELSE {Some(id) : id \in found}) :
                  reqs' = [reqs EXCEPT ![r] =
                    [kind |-> "apply", pc |-> "store", user |-> user,
                     opportunityId |-> opportunityId, existing |-> existing]]
             /\ UNCHANGED out
     /\ UNCHANGED <<apps, users, messages, secret, cronTasks, phoneCall, transferEvent, paymentLink, now, sweeps, minted,
                    lastEmail, confirmLog, claims, refundCalls>>

\* Lines 229-266: the uploads, then existing.save() of the pending application
\* (resume and letters only) or Application.create, then getPaymentLink.  A
\* save of a deleted document, an insert the unique index refuses, and a
\* payment link the gateway does not give (linkOk false, or no secret key) are
\* thrown, caught and answered 500.
ApplyStore(r, linkOk) ==
  LET q == reqs[r]
      id == IdSeq[minted + 1]
      created == [NewApplication(q.user, q.opportunityId) EXCEPT !.createdAt = now]
      link == IF IsSome(secret) /\ linkOk
              THEN Response(200, "Application saved. Complete payment via the link to finish.")
              ELSE Response(500, "Payment link failed")
  IN /\ q.pc = "store" /\ q.kind = "apply"
     /\ reqs' = [reqs EXCEPT ![r] = Done]
     /\ IF IsSome(q.existing)
        THEN /\ out' = IF Exists(Val(q.existing)) THEN link
                       ELSE Response(500, "No document found")
             /\ UNCHANGED <<apps, minted>>
        ELSE IF ~UniqueIndexAllows(q.user, q.opportunityId)
        THEN /\ out' = Response(500, "E11000 duplicate key error")
             /\ UNCHANGED <<apps, minted>>
        ELSE /\ apps' = [apps EXCEPT ![id] = Some(created)]
             /\ minted' = minted + 1
             /\ out' = link
     /\ UNCHANGED <<users, messages, secret, cronTasks, phoneCall, transferEvent, paymentLink, now, sweeps, lastEmail, confirmLog, claims,
                    refundCalls>>

----------------------------------------------------------------------------
(* router.delete('/:id') *)

\* const allowed = ['pending_payment', 'submitted'] of line 508
withdrawable == {"pending_payment", "submitted"}

\* Lines 503-511: Application.findOne({_id, userId}) and the status check.
WithdrawFind(r, user, id) ==
  LET answer(status, message) ==
        /\ out' = Response(status, message)
        /\ reqs' = [reqs EXCEPT ![r] = Done]
  IN /\ Arrives(r)
     /\ IF id \notin ObjectIds THEN answer(500, "Cast to ObjectId failed")
        ELSE IF ~(Exists(id) /\ Doc(id).userId = user)
        THEN answer(404, "Application not found")
        ELSE IF Doc(id).status \notin withdrawable
        THEN answer(400, "Application cannot be withdrawn")
        ELSE /\ reqs' = [reqs EXCEPT ![r] =
                  [kind |-> "withdraw", pc |-> "delete", id |-> id, application |-> Doc(id)]]
             /\ UNCHANGED out
     /\ UNCHANGED <<apps, users, messages, secret, cronTasks, phoneCall, transferEvent, paymentLink, now, sweeps, minted,
                    lastEmail, confirmLog, claims, refundCalls>>

\* Lines 512-513: Application.findByIdAndDelete(application._id), 200.
WithdrawDelete(r) ==
  LET q == reqs[r]
  IN /\ q.pc = "delete" /\ q.kind = "withdraw"
     /\ apps' = [apps EXCEPT ![q.id] = None]
     /\ out' = Response(200, "Application withdrawn")
     /\ reqs' = [reqs EXCEPT ![r] = Done]
     /\ UNCHANGED <<users, messages, secret, cronTasks, phoneCall, transferEvent, paymentLink, now, sweeps, minted,
                    lastEmail, confirmLog, claims, refundCalls>>

----------------------------------------------------------------------------
(* checkAndSendReminders *)

REMINDER_CONFIG == [days |-> 3, maxReminders |-> 2]

\* A sweep starts in the first run of the model not in progress.
Starts(s) == sweeps[s] = Idle /\ \A t \in 1..(s - 1) : sweeps[t] # Idle

\* Mutant: every pending application is overdue from its creation.
Overdue_NoThreshold(id) == TRUE

\* createdAt: {$lte: new Date(Date.now() - config.days * 24 * 60 * 60 * 1000)}
Overdue(id) == Doc(id).createdAt <= now - REMINDER_CONFIG.days

\* The applications the sweep is left with.
RECURSIVE Applications(_)
Applications(n) ==
  IF n = 0 THEN <<>>
  ELSE LET id == IdSeq[n]
       IN IF Exists(id) /\ Doc(id).status = "pending_payment" /\ Overdue(id)
          THEN Append(Applications(n - 1), id)
          ELSE Applications(n - 1)

\* The sweep goes on with the next application of its list, or ends.
Continue(s) ==
  sweeps' = [sweeps EXCEPT ![s] =
               IF Len(@.todo) = 1 THEN Idle ELSE [pc |-> "count", todo |-> Tail(@.todo)]]

\* Lines 78-92: Application.find({status: 'pending_payment', createdAt: {$lte:
\* thresholdDate}}); the sweep returns when it finds nothing.
SweepFind(s) ==
  LET applications == Applications(Len(IdSeq))
  IN /\ Starts(s)
     /\ applications # <<>>
     /\ sweeps' = [sweeps EXCEPT ![s] = [pc |-> "count", todo |-> applications]]
     /\ UNCHANGED <<apps, users, messages, secret, cronTasks, phoneCall, transferEvent, paymentLink, reqs, out, confirmLog, claims,
                    refundCalls, now, minted, lastEmail>>

\* Mutant: the sweep skips an application only above the maximum.
CapReached_Above(existingReminders) == existingReminders > REMINDER_CONFIG.maxReminders

\* existingReminders >= config.maxReminders
CapReached(existingReminders) == existingReminders >= REMINDER_CONFIG.maxReminders

\* Lines 103-119: Message.countDocuments({applicationId, type:
\* 'payment_reminder'}) and the check against maxReminders.
SweepCount(s) ==
  LET app == Head(sweeps[s].todo)
      existingReminders == messages[app]
  IN /\ sweeps[s].pc = "count"
     /\ IF CapReached(existingReminders)
        THEN Continue(s)
        ELSE sweeps' = [sweeps EXCEPT ![s].pc = "send"]
     /\ UNCHANGED <<apps, users, messages, secret, cronTasks, phoneCall, transferEvent, paymentLink, reqs, out, confirmLog, claims,
                    refundCalls, now, minted, lastEmail>>

\* Mutant: the entry is recorded whatever the send returned.
Recorded_Always(emailResult) == TRUE

\* if (emailResult.ok)
Recorded(emailResult) == emailResult.ok

\* Lines 125-151 and safeSendEmail: the send, which returns {ok: true} or, when
\* the mail service is not configured, refuses or throws, {ok: false}.
SweepSend(s, emailResult) ==
  /\ sweeps[s].pc = "send"
  /\ lastEmail' = Some([applicationId |-> Head(sweeps[s].todo), ok |-> emailResult.ok])
  /\ IF Recorded(emailResult)
     THEN sweeps' = [sweeps EXCEPT ![s].pc = "save"]
     ELSE Continue(s)
  /\ UNCHANGED <<apps, users, messages, secret, cronTasks, phoneCall, transferEvent, paymentLink, reqs, out, confirmLog, claims,
                 refundCalls, now, minted>>

\* Mutant: the sweep marks the application it reminded as awaiting payment.
SweepSave_MarksApplication(s) ==
  LET app == Head(sweeps[s].todo)
  IN /\ sweeps[s].pc = "save"
     /\ messages' = [messages EXCEPT ![app] = @ + 1]
     /\ Continue(s)
     /\ apps' = IF Exists(app)
                THEN [apps EXCEPT ![app] = Some(SetPath(Doc(app), "status", "pending_payment"))]
                ELSE apps
     /\ UNCHANGED <<users, secret, cronTasks, phoneCall, transferEvent, paymentLink, reqs, out, confirmLog, claims,
                    refundCalls, now, minted, lastEmail>>

\* Lines 135-148: message.save() of the payment_reminder entry.
SweepSave(s) ==
  LET app == Head(sweeps[s].todo)
  IN /\ sweeps[s].pc = "save"
     /\ messages' = [messages EXCEPT ![app] = @ + 1]
     /\ Continue(s)
     /\ UNCHANGED <<apps, users, secret, cronTasks, phoneCall, transferEvent, paymentLink, reqs, out, confirmLog, claims,
                    refundCalls, now, minted, lastEmail>>

\* initializeScheduler, lines 59-73: cron.schedule('0 */6 * * *', ...) adds the
\* task that runs checkAndSendReminders.  No module of the server imports or
\* calls initializeScheduler: src/index.js, lines 1-55, starts the server
\* without it, so the action is no step of any specification below.
initializeScheduler ==
  /\ cronTasks' = cronTasks \cup {"0 */6 * * *"}
  /\ UNCHANGED <<apps, users, messages, secret, phoneCall, transferEvent, paymentLink, reqs, out, confirmLog, claims,
                 refundCalls, now, sweeps, minted, lastEmail>>

\* node-cron runs the callback of a scheduled task at each of its times: a
\* sweep started by the timer.
CronFires(s) == cronTasks # {} /\ SweepFind(s)

\* A day passes.
Tick ==
  /\ now < MaxDay
  /\ now' = now + 1
  /\ UNCHANGED <<apps, users, messages, secret, cronTasks, phoneCall, transferEvent, paymentLink, reqs, out, confirmLog, claims,
                 refundCalls, sweeps, minted, lastEmail>>

----------------------------------------------------------------------------
(* The system *)

\* The webhook deliveries of the model: every body under the genuine
\* signature, and three bodies under every other header.
WebhookRequests ==
  {<<raw, Some(HmacSha512Hex(K1, raw))>> : raw \in RawBodies}
    \cup UNION {{<<raw, signature>> : signature \in SignatureHeaders(raw)} :
                  raw \in {"not json", "charge T1", "transfer success"}}

\* The verify calls of the model: the owner with every reference and a paid
\* transaction, the owner with the other gateway answers, and another user.
VerifyRequests ==
  {<<U1, reference, "paid">> : reference \in VerifyReferences}
    \cup {<<U1, TxData("T1").reference, outcome>> : outcome \in {"error", "unpaid"}}
    \cup {<<U2, TxData("T1").reference, "paid">>}

\* The status updates of the model: every status value for the application,
\* and an allowed status for the other identifiers.
StatusRequests ==
  {<<A1, status>> : status \in StatusInputs}
    \cup {<<id, Some("submitted")>> : id \in ParamIds}

\* The transfers of the model: the transfer tied to the application, and the
\* same transfer with one input or one gateway answer changed.
TransferRequests ==
  LET phone == Some(<<"0", "7", "1", "2", "3", "4", "5", "6", "7", "8">>)
  IN {<<amount, phone, Some(A1), "ok">> : amount \in AmountInputs}
       \cup {<<Some(200), ph, Some(A1), "ok">> : ph \in PhoneInputs}
       \cup {<<Some(200), phone, Some(id), "ok">> : id \in ParamIds}
       \cup {<<Some(200), phone, None, "ok">>}
       \cup {<<Some(200), phone, Some(A1), outcome>> : outcome \in {"no recipient", "no transfer"}}

\* The apply calls of the model: each user for the open opportunity, and one
\* user with another opportunity or another resume.
ApplyRequests ==
  {<<user, O1, Some(Pdf)>> : user \in Users}
    \cup {<<U2, o, Some(Pdf)>> : o \in {O2, "o9"}}
    \cup {<<U2, O1, file>> : file \in FileInputs}

\* The withdrawals of the model: the owner of the first application with every
\* identifier, and the other user with the first two.
WithdrawRequests ==
  {<<U1, id>> : id \in ParamIds} \cup {<<U2, A1>>, <<U2, A2>>}

Next ==
  \E r \in Slots :
    \/ \E w \in WebhookRequests : WebhookReceive(r, w[1], w[2])
    \/ WebhookSave(r)
    \/ WebhookSaveUser(r)
    \/ WebhookSaveUserFails(r)
    \/ WebhookSaveTransfer(r)
    \/ \E v \in VerifyRequests : VerifyPayment(r, v[1], v[2], v[3])
    \/ VerifySave(r)
    \/ VerifySaveUser(r)
    \/ VerifySaveUserFails(r)
    \/ \E s \in StatusRequests : AdminSetStatus(r, s[1], s[2])
    \/ \E id \in ParamIds : RefundClaim(r, id)
    \/ RefundRollback(r)
    \/ \E ok \in BOOLEAN : RefundGateway(r, ok)
    \/ RefundSetAmount(r)
    \/ \E t \in TransferRequests : TransferMpesa(r, t[1], t[2], t[3], t[4])
    \/ TransferSave(r)
    \/ \E a \in ApplyRequests : ApplyFind(r, a[1], a[2], a[3])
    \/ \E linkOk \in BOOLEAN : ApplyStore(r, linkOk)
    \/ \E w \in WithdrawRequests : WithdrawFind(r, w[1], w[2])
    \/ WithdrawDelete(r)

Spec == Init /\ [][Next]_vars

\* The saved-card charges of the model: the owner with every identifier and a
\* successful charge, the owner with the other gateway answers, and another
\* user.
ChargeRequests ==
  {<<U1, id, "success">> : id \in ParamIds}
    \cup {<<U1, A1, outcome>> : outcome \in ChargeOutcomes}
    \cup {<<U2, A1, "success">>}

\* A returning customer: the first user has a card stored by an earlier
\* payment, the second has none.
InitCard ==
  /\ Started
  /\ phoneCall = NoCall
  /\ paymentLink = NoLink
  /\ users = [NoCards EXCEPT ![U1] = StoredAuthorization(TxData("T1").authorization)]

\* All handlers, with the charge of a saved card.
CardNext ==
  \/ Next
  \/ \E r \in Slots :
       \/ \E c \in ChargeRequests : ChargeSavedCard(r, c[1], c[2], c[3])
       \/ ChargeSave(r)

SpecCard == InitCard /\ [][CardNext]_vars

\* The two confirmation channels alone: webhook deliveries and verify calls.
ConfirmNext ==
  \E r \in Slots :
    \/ \E w \in WebhookRequests : WebhookReceive(r, w[1], w[2])
    \/ WebhookSave(r)
    \/ WebhookSaveUser(r)
    \/ WebhookSaveUserFails(r)
    \/ \E v \in VerifyRequests : VerifyPayment(r, v[1], v[2], v[3])
    \/ VerifySave(r)
    \/ VerifySaveUser(r)
    \/ VerifySaveUserFails(r)

SpecConfirm == Init /\ [][ConfirmNext]_vars

\* The results of the send of the model.
EmailResults == {[ok |-> TRUE], [ok |-> FALSE]}

\* The scheduler: sweeps started by the timer or by triggerReminderCheck at any
\* time, also while other sweeps are in progress, next to the handler that
\* takes applications out of pending_payment.
SweepNext ==
  \/ Tick
  \/ \E s \in SweepIds :
       \/ SweepFind(s)
       \/ SweepCount(s)
       \/ \E emailResult \in EmailResults : SweepSend(s, emailResult)
       \/ SweepSave(s)
  \/ \E r \in Slots : \E st \in StatusRequests : AdminSetStatus(r, st[1], st[2])

SpecSweep == Init /\ [][SweepNext]_vars

\* The scheduler when a sweep starts only after the sweep before it has ended.
SweepStartsAlone(s) == (\A t \in SweepIds : sweeps[t] = Idle) /\ SweepFind(s)

SeqSweepNext ==
  \/ Tick
  \/ \E s \in SweepIds :
       \/ SweepStartsAlone(s)
       \/ SweepCount(s)
       \/ \E emailResult \in EmailResults : SweepSend(s, emailResult)
       \/ SweepSave(s)
  \/ \E r \in Slots : \E st \in StatusRequests : AdminSetStatus(r, st[1], st[2])

SpecSweepSeq == Init /\ [][SeqSweepNext]_vars

\* The server left running: time passes, triggerReminderCheck may be called
\* once the sweep before it has ended, the mail service accepts every send,
\* and the admin may take an application out of pending_payment.
ServeNext ==
  \/ Tick
  \/ \E s \in SweepIds :
       \/ SweepStartsAlone(s)
       \/ SweepCount(s)
       \/ SweepSend(s, [ok |-> TRUE])
       \/ SweepSave(s)
  \/ \E r \in Slots : \E st \in StatusRequests : AdminSetStatus(r, st[1], st[2])

\* Time passes, a scheduled task fires at its times, and a sweep in progress
\* takes its next step; nothing obliges anyone to call triggerReminderCheck.
ServeFairness ==
  /\ WF_vars(Tick)
  /\ \A s \in SweepIds :
       /\ WF_vars(CronFires(s))
       /\ WF_vars(SweepCount(s))
       /\ WF_vars(SweepSend(s, [ok |-> TRUE]))
       /\ WF_vars(SweepSave(s))

SpecServe == Init /\ [][ServeNext]_vars /\ ServeFairness

\* The deliveries next to the scheduler: the charge.success events of the
\* first two transactions, under every signature header.
RemindRequests == {w \in WebhookRequests : w[1] \in {"charge T1", "charge T2"}}

\* The scheduler next to the payment webhook: sweeps that may overlap, while
\* deliveries of the gateway confirm applications.
RemindNext ==
  \/ Tick
  \/ \E s \in SweepIds :
       \/ SweepFind(s)
       \/ SweepCount(s)
       \/ \E emailResult \in EmailResults : SweepSend(s, emailResult)
       \/ SweepSave(s)
  \/ \E r \in Slots :
       \/ \E w \in RemindRequests : WebhookReceive(r, w[1], w[2])
       \/ WebhookSave(r)
       \/ WebhookSaveUser(r)
       \/ WebhookSaveUserFails(r)

SpecRemind == Init /\ [][RemindNext]_vars

\* The gateway client called with each phone argument, by both functions, and
\* called again with what it made of the number.
PhoneNext ==
  \/ ChargeMpesaCall
  \/ CreateTransferRecipientCall
  \/ Redial(phoneCall.chargeMpesa)
  \/ Redial(phoneCall.createTransferRecipient)

SpecPhone == InitPhone /\ [][PhoneNext]_vars

----------------------------------------------------------------------------
(* getPaymentLink, and what each confirmation makes of its payment *)

MaxIdLen == 3

\* The characters of the identifiers of the model: a letter, a digit and a
\* letter of the tag; none is '-'.
IdChars == {"a", "1", "P"}

\* The values of application._id in the reference.
LinkIds == UNION {[1..n -> IdChars] : n \in 1..MaxIdLen}

\* The values of Date.now(), in milliseconds.
LinkTimes == {0, 7, 15}

\* The values of opportunity.applicationFee.
LinkFees == {Whole(1), Whole(350), [units |-> 500, cents |-> 50]}

\* Math.round(Number(amount) * 100)
amountInSmallest(amount) == amount.units * 100 + amount.cents

\* getPaymentLink is about to be called for an application and its fee.
InitLink ==
  /\ Started
  /\ users = NoCards
  /\ phoneCall = NoCall
  /\ \E id \in LinkIds, t \in LinkTimes, fee \in LinkFees :
       paymentLink = [NoLink EXCEPT !.id = id, !.millis = t, !.fee = Some(fee)]

\* Lines 182-192 and initializeTransaction: the reference and the amount the
\* transaction is initialized with.
GetPaymentLink ==
  /\ ~IsSome(paymentLink.reference)
  /\ paymentLink' =
       [paymentLink EXCEPT
          !.reference = Some(MkReference(paymentLink.id, ToDigits(paymentLink.millis))),
          !.amountInSmallest = Some(amountInSmallest(Val(paymentLink.fee)))]
  /\ UNCHANGED <<apps, users, messages, secret, cronTasks, phoneCall, transferEvent, reqs, out,
                 confirmLog, claims, refundCalls, now, sweeps, minted, lastEmail>>

\* The data of the settled transaction: the reference and the amount it was
\* initialized with.
LinkData ==
  [NoData EXCEPT !.reference = paymentLink.reference, !.amount = paymentLink.amountInSmallest]

\* Lines 289-299: the identifier and the amount the webhook takes from data.
WebhookLink ==
  /\ IsSome(paymentLink.reference)
  /\ ~IsSome(paymentLink.webhook)
  /\ StartsWithAPP(Val(LinkData.reference))
  /\ paymentLink' =
       [paymentLink EXCEPT !.webhook =
          Some([applicationId |-> ExtractApplicationId(Val(LinkData.reference)),
                amountPaid |-> Confirmed(NewApplication(U1, O1), WebhookTxId(LinkData),
                                         LinkData.amount).amountPaid])]
  /\ UNCHANGED <<apps, users, messages, secret, cronTasks, phoneCall, transferEvent, reqs, out,
                 confirmLog, claims, refundCalls, now, sweeps, minted, lastEmail>>

\* Lines 340-350: the identifier and the amount verify-payment takes from the
\* reference of the request and the transaction of the gateway.
VerifyLink ==
  /\ IsSome(paymentLink.reference)
  /\ ~IsSome(paymentLink.verify)
  /\ paymentLink' =
       [paymentLink EXCEPT !.verify =
          Some([applicationId |-> ExtractApplicationId(Val(paymentLink.reference)),
                amountPaid |-> Confirmed(NewApplication(U1, O1),
                                         VerifyTxId(LinkData, paymentLink.reference),
                                         LinkData.amount).amountPaid])]
  /\ UNCHANGED <<apps, users, messages, secret, cronTasks, phoneCall, transferEvent, reqs, out,
                 confirmLog, claims, refundCalls, now, sweeps, minted, lastEmail>>

\* Lines 401-414: the charge of the saved card is made with the fee, and the
\* fee is stored.
CardLink ==
  /\ IsSome(paymentLink.fee)
  /\ ~IsSome(paymentLink.card)
  /\ paymentLink' =
       [paymentLink EXCEPT !.card =
          Some([amountPaid |-> Charged(NewApplication(U1, O1),
                                       MkReference(paymentLink.id, ToDigits(paymentLink.millis)),
                                       Val(paymentLink.fee)).amountPaid])]
  /\ UNCHANGED <<apps, users, messages, secret, cronTasks, phoneCall, transferEvent, reqs, out,
                 confirmLog, claims, refundCalls, now, sweeps, minted, lastEmail>>

LinkNext ==
  \/ GetPaymentLink
  \/ WebhookLink
  \/ VerifyLink
  \/ CardLink

SpecLink == InitLink /\ [][LinkNext]_vars

----------------------------------------------------------------------------
(* Properties *)

\* Request r is a confirmation (webhook or verify) about to write application id.
ConfirmationAtSave(r, id) ==
  /\ reqs[r].pc = "save"
  /\ reqs[r].kind \in {"webhook", "verify"}
  /\ reqs[r].id = id

\* What a confirmation of the gateway transaction d stores on a fresh application.
ExpectedTxId(d) == IF IsSome(d.id) THEN Some(ToDigits(Val(d.id))) ELSE d.reference
ExpectedAmount(d) ==
  IF IsSome(d.amount)
  THEN Some([units |-> Val(d.amount) \div 100, cents |-> Val(d.amount) % 100])
  ELSE None

\* C1: of the deliveries of one charge.success webhook for an application, at
\* most one performs the confirming write; no two entries of the application's
\* confirmation log are webhook writes of the same event.
C1_OneDeliveryWrites ==
  \A id \in ObjectIds :
    \A i, j \in 1..Len(confirmLog[id]) :
      (/\ confirmLog[id][i].via = "webhook"
       /\ confirmLog[id][j].via = "webhook"
       /\ confirmLog[id][i].data = confirmLog[id][j].data) => i = j

\* C2: the stored transaction id and amount are those of the first
\* confirmation that wrote, whatever confirmations write after it.
C2_FirstWriterWins ==
  \A id \in ObjectIds :
    (Exists(id) /\ confirmLog[id] # <<>>) =>
      /\ Doc(id).paymentTransactionId = ExpectedTxId(confirmLog[id][1].data)
      /\ Doc(id).amountPaid = ExpectedAmount(confirmLog[id][1].data)

\* C3: when the confirmations that wrote to an application, by webhook or by
\* verify call and in whatever order, are all for one gateway transaction, the
\* application is submitted with that transaction's id and amount.
C3_SameTransactionSameState ==
  \A id \in ObjectIds :
    (/\ confirmLog[id] # <<>>
     /\ \A i \in 1..Len(confirmLog[id]) : confirmLog[id][i].data = confirmLog[id][1].data)
      => /\ Exists(id)
         /\ Doc(id) = [NewApplication(U1, O1) EXCEPT
                         !.status = "submitted",
                         !.paymentTransactionId = ExpectedTxId(confirmLog[id][1].data),
                         !.amountPaid = ExpectedAmount(confirmLog[id][1].data)]

\* C3 witness: a verify call and then a webhook both wrote the same transaction.
C3_Witness ==
  /\ Len(confirmLog[A1]) = 2
  /\ confirmLog[A1][1].via = "verify"
  /\ confirmLog[A1][2].via = "webhook"
  /\ confirmLog[A1][1].data = confirmLog[A1][2].data

\* C4: a confirmation whose write comes when the application is no longer in
\* pending_payment changes nothing of the application.
C4_StaleConfirmationIsNoOp ==
  [][\A id \in ObjectIds : \A r \in Slots :
       (/\ ConfirmationAtSave(r, id)
        /\ reqs'[r] # reqs[r]
        /\ Exists(id)
        /\ Doc(id).status # "pending_payment") => apps'[id] = apps[id]]_vars

\* The header is the hex HMAC-SHA512 of the raw body under the configured secret.
SignatureGenuine(raw, signature) ==
  IsSome(secret) /\ signature = Some([key |-> Val(secret), payload |-> raw, length |-> 128])

\* C5: a webhook whose signature does not verify (header absent, secret
\* unconfigured, or any other header) is answered 401 and changes no
\* Application, no User and no Message, whatever its body.
C5_UnverifiedWebhookRejected ==
  [][\A r \in Slots : \A w \in WebhookRequests :
       (~SignatureGenuine(w[1], w[2]) /\ WebhookReceive(r, w[1], w[2]))
         => /\ out' = Response(401, "Invalid webhook signature")
            /\ reqs'[r] = Done
            /\ UNCHANGED <<apps, users, messages>>]_vars

\* C5 witness: a webhook was answered 401.
C5_Witness == out.status = 401 /\ \E r \in Slots : reqs[r] = Done

\* Request r is a webhook delivery between its acknowledgment and its end.
WebhookInProgress(r) ==
  /\ reqs[r].pc \notin {"idle", "done"}
  /\ reqs[r].kind = "webhook"

\* C6: a signature-valid webhook is answered 200 in the step that receives it,
\* that step writes no Application and no User, every later step of the
\* delivery (the only ones that write) runs acknowledged, and none of them
\* sends another response.
C6_AckBeforeMutation ==
  [][\A r \in Slots :
       /\ \A w \in WebhookRequests :
            WebhookReceive(r, w[1], w[2])
              => /\ UNCHANGED <<apps, users, messages>>
                 /\ SignatureGenuine(w[1], w[2]) => out' = Response(200, "")
                 /\ reqs'[r].pc # "done" => reqs'[r].acked
       /\ (WebhookInProgress(r) /\ reqs'[r] # reqs[r])
            => reqs[r].acked /\ UNCHANGED out]_vars

\* C6 witness: an acknowledged delivery has written the application and is
\* about to write the user.
C6_Witness ==
  \E r \in Slots :
    /\ WebhookInProgress(r)
    /\ reqs[r].pc = "saveUser"
    /\ Exists(reqs[r].id)
    /\ Doc(reqs[r].id).status = "submitted"

\* C7 as stated: at most one refund call wins the refundedAt claim of an
\* application, and the gateway refund is requested at most once for it.
C7_OneClaimOneRefund ==
  \A id \in ObjectIds : claims[id].won <= 1 /\ refundCalls[id] <= 1

\* C7 amended: at most one refund call wins the refundedAt claim of an
\* application without rolling it back, and the gateway refund is requested at
\* most once for it.
C7_OneKeptClaimOneRefund ==
  \A id \in ObjectIds :
    /\ claims[id].won - claims[id].rolledBack <= 1
    /\ refundCalls[id] <= 1

\* C7 witness: the gateway refund was requested and a later refund call lost
\* the claim.
C7_Witness ==
  /\ refundCalls[A1] = 1
  /\ out = Response(404, "Application not found or already refunded")

\* C8: a refund call that claims a paid application without a stored
\* transaction id goes to the rollback; the rollback answers 'No payment
\* transaction to refund' and leaves refundedAt unset; neither step makes a
\* gateway request.
C8_NoTransactionRolledBack ==
  [][\A r \in Slots : \A id \in ObjectIds :
       /\ (/\ RefundClaim(r, id)
           /\ RefundClaimMatches(id)
           /\ Doc(id).status # "pending_payment"
           /\ Doc(id).paymentTransactionId = None)
            => /\ reqs'[r].pc = "rollback"
               /\ UNCHANGED refundCalls
       /\ (reqs[r].pc = "rollback" /\ reqs[r].id = id /\ reqs'[r] # reqs[r])
            => /\ out' = Response(400, "No payment transaction to refund")
               /\ reqs'[r] = Done
               /\ UNCHANGED refundCalls
               /\ IsSome(apps'[id]) => Val(apps'[id]).refundedAt = None]_vars

\* C8 witness: a refund call was answered 'No payment transaction to refund'.
C8_Witness ==
  /\ out = Response(400, "No payment transaction to refund")
  /\ Exists(A1)
  /\ Doc(A1).status \in PaidStatuses
  /\ Doc(A1).refundedAt = None

\* C9: a refund call on an application whose refundedAt is set is answered
\* with an error, makes no gateway request, and changes no application.
C9_AlreadyRefundedRejected ==
  [][\A r \in Slots : \A id \in ObjectIds :
       (Exists(id) /\ IsSome(Doc(id).refundedAt) /\ RefundClaim(r, id))
         => /\ out'.status >= 400
            /\ reqs'[r] = Done
            /\ UNCHANGED <<apps, refundCalls>>]_vars

\* C9 witness: a refund call on a refunded application was answered 404.
C9_Witness ==
  /\ out = Response(404, "Application not found or already refunded")
  /\ Exists(A1)
  /\ IsSome(Doc(A1).refundedAt)
  /\ IsSome(Doc(A1).refundAmount)

\* C10: a refund call on an application in pending_payment is answered with
\* an error, makes no gateway request, and changes no application.
C10_UnpaidRefundChangesNothing ==
  [][\A r \in Slots : \A id \in ObjectIds :
       (Exists(id) /\ Doc(id).status = "pending_payment" /\ RefundClaim(r, id))
         => /\ out'.status >= 400
            /\ reqs'[r] = Done
            /\ UNCHANGED <<apps, refundCalls>>]_vars

\* C11: when the gateway rejects or fails the refund request, the refund call
\* answers with an error and leaves the application as it was before the call:
\* refundedAt and refundAmount are unset.
C11_FailedRefundChangesNothing ==
  [][\A r \in Slots :
       (IsSome(secret) /\ RefundGateway(r, FALSE) /\ Exists(reqs[r].id))
         => /\ out'.status >= 400
            /\ Val(apps'[reqs[r].id]).refundedAt = None
            /\ Val(apps'[reqs[r].id]).refundAmount = None]_vars

\* C12: in every reachable state no application has more payment_reminder
\* entries than maxReminders, whatever sweeps have run and however they
\* interleave.
C12_ReminderCap ==
  \A id \in ObjectIds : messages[id] <= REMINDER_CONFIG.maxReminders

C15_RecordOnlyAfterSend ==
  [][\A s \in SweepIds :
       /\ \A id \in ObjectIds :
            messages'[id] # messages[id]
              => /\ messages'[id] = messages[id] + 1
                 /\ \E t \in SweepIds : sweeps[t].pc = "save" /\ Head(sweeps[t].todo) = id
       /\ (sweeps'[s].pc = "save" /\ sweeps[s].pc # "save")
            => /\ sweeps[s].pc = "send"
               /\ lastEmail' = Some([applicationId |-> Head(sweeps'[s].todo), ok |-> TRUE])
       /\ SweepSend(s, [ok |-> FALSE])
            => UNCHANGED messages /\ sweeps'[s].pc # "save"]_vars

\* C15 witness: the last send to the application failed, no entry is recorded
\* for it, and a later sweep is at the send for it again.
C15_Witness ==
  /\ lastEmail = Some([applicationId |-> A1, ok |-> FALSE])
  /\ messages[A1] = 0
  /\ \E s \in SweepIds : sweeps[s].pc = "send" /\ Head(sweeps[s].todo) = A1

\* C16: an application is deleted only while its status, at the moment of the
\* deletion, is pending_payment or submitted.
C16_DeletedOnlyWhileWithdrawable ==
  [][\A id \in ObjectIds :
       (Exists(id) /\ ~IsSome(apps'[id])) => Doc(id).status \in withdrawable]_vars

\* No two applications are of the same user for the same opportunity.
OnePerPair(collection) ==
  \A a, b \in ObjectIds :
    (/\ IsSome(collection[a]) /\ IsSome(collection[b])
     /\ Val(collection[a]).userId = Val(collection[b]).userId
     /\ Val(collection[a]).opportunityId = Val(collection[b]).opportunityId) => a = b

\* C17: there is at most one application per (user, opportunity) pair before
\* and after every step, and an apply call that comes to its insert when the
\* pair has an application is answered with an error and inserts nothing.
C17_OnePerUserAndOpportunity ==
  [][/\ OnePerPair(apps) /\ OnePerPair(apps')
     /\ \A r \in Slots : \A linkOk \in BOOLEAN :
          (/\ ApplyStore(r, linkOk)
           /\ reqs[r].existing = None
           /\ ApplicationsOf(reqs[r].user, reqs[r].opportunityId) # {})
            => out'.status >= 400 /\ UNCHANGED <<apps, minted>>]_vars

\* C17 witness: of two concurrent apply calls of the second user, one inserted
\* the application and the other was refused by the index.
C17_Witness ==
  /\ out = Response(500, "E11000 duplicate key error")
  /\ Exists(A1) /\ Doc(A1).userId = U1
  /\ Exists(A2) /\ Doc(A2).userId = U2
  /\ ~Exists(A3)

\* C18: the status of an application changes to submitted at most once, and
\* only by the write of a payment confirmation: the step that makes it
\* submitted is the first entry of the application's confirmation log.
C18_SubmittedOnceByConfirmation ==
  [][\A id \in ObjectIds :
       (/\ Exists(id) /\ IsSome(apps'[id])
        /\ Doc(id).status # "submitted"
        /\ Val(apps'[id]).status = "submitted")
         => confirmLog[id] = <<>> /\ Len(confirmLog'[id]) = 1]_vars

\* The application that a charge.success body or a verify reference names
\* exists and is not in pending_payment.
NamesSettled(reference) ==
  /\ IsSome(reference)
  /\ StartsWithAPP(Val(reference))
  /\ Exists(ExtractApplicationId(Val(reference)))
  /\ Doc(ExtractApplicationId(Val(reference))).status # "pending_payment"

\* C19: a signature-valid charge.success webhook for an application that is
\* not in pending_payment when the handler looks it up is answered 200 and
\* ends there, and a verify call with a paid transaction for such an
\* application is answered verified: true; neither changes an application or
\* a user.
C19_ReplayedConfirmationDiscarded ==
  [][\A r \in Slots :
       /\ \A w \in WebhookRequests :
            (/\ SignatureGenuine(w[1], w[2])
             /\ JsonParse(w[1]).event = Some("charge.success")
             /\ NamesSettled(Val(JsonParse(w[1]).data).reference)
             /\ WebhookReceive(r, w[1], w[2]))
              => /\ out' = Response(200, "")
                 /\ reqs'[r] = Done
                 /\ UNCHANGED <<apps, users>>
       /\ \A v \in VerifyRequests :
            (/\ IsSome(secret) /\ v[3] = "paid"
             /\ NamesSettled(v[2])
             /\ TxOfReference(Val(v[2])) # {}
             /\ VerifyPayment(r, v[1], v[2], v[3]))
              => /\ out' = Response(200, "verified: true")
                 /\ reqs'[r] = Done
                 /\ UNCHANGED <<apps, users>>]_vars

\* C19 witness: the application was moved on by the admin without any
\* confirmation, and a verify call was then answered verified: true.
C19_Witness ==
  /\ out = Response(200, "verified: true")
  /\ Exists(A1) /\ Doc(A1).status = "under_review"
  /\ Doc(A1).paymentTransactionId = None
  /\ confirmLog[A1] = <<>>

\* C20: a verify call whose transaction is not paid yet is answered 200 with
\* verified: false, and one whose gateway request fails is answered with an
\* error status; neither changes an application or a user.
C20_UnpaidAndFailedVerify ==
  [][\A r \in Slots : \A v \in VerifyRequests :
       (/\ IsSome(v[2]) /\ StartsWithAPP(Val(v[2]))
        /\ VerifyPayment(r, v[1], v[2], v[3]))
         => /\ (IsSome(secret) /\ v[3] = "unpaid" /\ TxOfReference(Val(v[2])) # {})
                 => out' = Response(200, "verified: false")
            /\ (~IsSome(secret) \/ v[3] = "error" \/ TxOfReference(Val(v[2])) = {})
                 => out'.status >= 400
            /\ v[3] # "paid" => reqs'[r] = Done /\ UNCHANGED <<apps, users>>]_vars

\* C20 witness: a verify call was answered verified: false and the application
\* is still in pending_payment, without a transaction id.
C20_Witness ==
  /\ out = Response(200, "verified: false")
  /\ Exists(A1) /\ Doc(A1).status = "pending_payment"
  /\ Doc(A1).paymentTransactionId = None

----------------------------------------------------------------------------
(* C21 *)

\* The number of characters an argument comes to once written in the
\* international form: its characters that are no blanks, less a leading
\* '+', with two more for a leading 0 and three more when 254 is not in front.
InternationalLength(phone) ==
  LET given == IF IsSome(phone) THEN Val(phone) ELSE <<>>
      blanks == Cardinality({i \in 1..Len(given) : given[i] = " "})
      first == IF \E i \in 1..Len(given) : given[i] # " "
               THEN given[CHOOSE i \in 1..Len(given) :
                            given[i] # " " /\ \A j \in 1..(i - 1) : given[j] = " "]
               ELSE ""
      plus == IF first = "+" THEN 1 ELSE 0
      rest == SelectSeq(given, LAMBDA c : c # " ")
      digits == IF plus = 1 THEN Tail(rest) ELSE rest
  IN IF StartsWith(digits, <<"0">>) THEN Len(given) - blanks - plus + 2
     ELSE IF StartsWith(digits, CountryCode) THEN Len(given) - blanks - plus
     ELSE Len(given) - blanks - plus + 3

\* What the claim expects of one call's result for the phone of the state.
NormalizedAsClaimed(result) ==
  /\ \A sub \in Subscribers :
       phoneCall.phone \in Forms(sub) /\ IsSome(secret)
         => result.ok /\ result.normalized = CountryCode \o sub
  /\ IsSome(secret) /\ InternationalLength(phoneCall.phone) < 12
       => ~result.ok /\ result.message = "Invalid phone number"
  /\ phoneCall.phone \in ShortPhones => ~result.ok
  /\ IsSome(phoneCall.redialled)
       => result.ok /\ result.normalized = Val(phoneCall.redialled)

\* C21: chargeMpesa and createTransferRecipient bring the local, the bare and
\* the prefixed way of writing a subscriber's number (with or without '+') to
\* one international form, leave that form as it is when it is given again,
\* throw 'Invalid phone number' for every argument that comes to fewer than 12
\* characters, and accept and refuse the same arguments.
C21_PhoneNormalization ==
  /\ IsSome(phoneCall.chargeMpesa) => NormalizedAsClaimed(Val(phoneCall.chargeMpesa))
  /\ IsSome(phoneCall.createTransferRecipient)
       => NormalizedAsClaimed(Val(phoneCall.createTransferRecipient))
  /\ IsSome(phoneCall.chargeMpesa) /\ IsSome(phoneCall.createTransferRecipient)
       => /\ Val(phoneCall.chargeMpesa).ok = Val(phoneCall.createTransferRecipient).ok
          /\ Val(phoneCall.chargeMpesa).message = Val(phoneCall.createTransferRecipient).message
          /\ Val(phoneCall.chargeMpesa).normalized
               = Val(phoneCall.createTransferRecipient).normalized

\* A number one of the functions accepted was given again with '+' in front,
\* as chargeMpesa sends it, and both functions accepted it.
C21_Witness ==
  /\ IsSome(phoneCall.redialled)
  /\ phoneCall.phone = Some(<<"+">> \o Val(phoneCall.redialled))
  /\ IsSome(phoneCall.chargeMpesa) /\ Val(phoneCall.chargeMpesa).ok
  /\ IsSome(phoneCall.createTransferRecipient) /\ Val(phoneCall.createTransferRecipient).ok

----------------------------------------------------------------------------
(* C22 *)

\* C22: on a running server, an application that is pending_payment and past
\* the threshold gets a payment reminder, or leaves pending_payment.
C22_OverdueEventuallyReminded ==
  \A id \in ObjectIds :
    (Exists(id) /\ Doc(id).status = "pending_payment" /\ Overdue(id))
      ~> (messages[id] > 0 \/ ~(Exists(id) /\ Doc(id).status = "pending_payment"))

----------------------------------------------------------------------------
(* C23 *)

\* REMINDER_SYSTEM.md, step 5: the second reminder comes after 6 days.
SecondReminderDay == 6

\* C23: an application with two payment_reminder entries has been pending for
\* at least 6 days.
C23_SecondReminderAfterSixDays ==
  \A id \in ObjectIds :
    Exists(id) /\ messages[id] >= 2 => now - Doc(id).createdAt >= SecondReminderDay

----------------------------------------------------------------------------
(* C24 *)

\* C24: an application in pending_payment has no paymentTransactionId and no
\* amountPaid.
C24_PendingHasNoPayment ==
  \A id \in ObjectIds :
    Exists(id) /\ Doc(id).status = "pending_payment"
      => ~IsSome(Doc(id).paymentTransactionId) /\ ~IsSome(Doc(id).amountPaid)

\* One application was confirmed by the charge of a saved card while another
\* application is pending and a confirmation of it is about to be saved.
C24_Witness ==
  \E id \in ObjectIds, other \in ObjectIds :
    /\ Exists(id) /\ Doc(id).status = "pending_payment"
    /\ \E r \in Slots : reqs[r].pc = "save" /\ reqs[r].id = id
    /\ Exists(other) /\ Doc(other).status = "submitted"
    /\ \E i \in 1..Len(confirmLog[other]) : confirmLog[other][i].via = "card"

----------------------------------------------------------------------------
(* C25 *)

\* C25: no transfer tied to an application is past the gateway's transfer
\* request, with its write of refundedAt, refundAmount and refundTransferCode
\* to come, when the application it found had refundedAt set already.
C25_NoPayoutOnceRefunded ==
  \A r \in Slots :
    reqs[r].pc = "save" /\ reqs[r].kind = "transfer"
      => ~IsSome(reqs[r].application.refundedAt)

----------------------------------------------------------------------------
(* C26 *)

\* The stamp of refundedAt that a refund call took is Some of its own slot;
\* the stamps of transfers and transfer events are Some of theirs.
ClearsRefundedAt(id) ==
  /\ Exists(id) /\ IsSome(Doc(id).refundedAt)
  /\ Exists(id)' /\ ~IsSome(Doc(id)'.refundedAt)

\* C26: refundedAt is cleared only by the rollback of a refund call, and the
\* stamp it clears is the one that call set.
C26_RollbackClearsOwnClaim ==
  [][\A id \in ObjectIds :
       ClearsRefundedAt(id)
         => \E r \in Slots :
              /\ RefundRollback(r)
              /\ reqs[r].id = id
              /\ Doc(id).refundedAt = reqs[r].application.refundedAt]_vars

----------------------------------------------------------------------------
(* C27 *)

\* C27: an application with refundAmount or refundTransferCode has refundedAt.
C27_RefundFieldsImplyRefundedAt ==
  \A id \in ObjectIds :
    Exists(id) /\ (IsSome(Doc(id).refundAmount) \/ IsSome(Doc(id).refundTransferCode))
      => IsSome(Doc(id).refundedAt)

----------------------------------------------------------------------------
(* C28 *)

\* A transfer request that must fail: amount or phone missing, a phone that
\* comes to fewer than 12 characters, no secret key, or a gateway call refused.
TransferMustFail(t) ==
  \/ ~IsSome(t[1]) \/ ~IsSome(t[2])
  \/ InternationalLength(t[2]) < 12
  \/ ~IsSome(secret)
  \/ t[4] # "ok"

\* C28: the step that validates a transfer and calls the gateway writes no
\* application; when the request must fail it answers 400 and the call ends,
\* so the save of refundedAt, refundAmount and refundTransferCode is reached
\* only after recipient and transfer were both accepted; and no other step of
\* a transfer but that save writes an application.
C28_TransferStampsAfterSuccess ==
  [][\A r \in Slots :
       /\ \A t \in TransferRequests :
            TransferMpesa(r, t[1], t[2], t[3], t[4])
              => /\ apps' = apps
                 /\ TransferMustFail(t) => reqs'[r] = Done /\ out'.status = 400
                 /\ reqs'[r] # Done => ~TransferMustFail(t) /\ reqs'[r].pc = "save"
       /\ TransferSave(r) /\ apps' # apps
            => /\ out'.status = 200
               /\ \A id \in ObjectIds \ {reqs[r].id} : apps'[id] = apps[id]]_vars

\* A transfer has stamped the application, and a later transfer that the
\* gateway refused was answered 400.
C28_Witness ==
  /\ Exists(A1) /\ Doc(A1).refundTransferCode = Some(TransferCode)
  /\ IsSome(Doc(A1).refundAmount) /\ IsSome(Doc(A1).refundedAt)
  /\ out = Response(400, "Transfer failed")

----------------------------------------------------------------------------
(* C29 *)

\* The raw bodies of the transfer events, and the transfer code each carries.
TransferBodies == {"transfer success", "transfer failed", "transfer unknown"}

CodeIn(raw) == IF raw = "transfer unknown" THEN <<"T", "R", "F", "9">> ELSE TransferCode

\* No application has the code as its refundTransferCode.
Unmatched(code) ==
  \A id \in ObjectIds : Exists(id) => Doc(id).refundTransferCode # Some(code)

\* C29: a signature-valid transfer.success or transfer.failed webhook whose
\* transfer code is no application's refundTransferCode is answered 200 and
\* ends in the step that receives it, and changes no application.
C29_UnmatchedTransferEventIgnored ==
  [][\A r \in Slots : \A w \in WebhookRequests :
       (/\ w[1] \in TransferBodies
        /\ SignatureGenuine(w[1], w[2])
        /\ Unmatched(CodeIn(w[1]))
        /\ WebhookReceive(r, w[1], w[2]))
         => /\ out' = Response(200, "")
            /\ reqs'[r] = Done
            /\ apps' = apps]_vars

\* A transfer event with a code of no application was the last one delivered,
\* while an application holds the code of the transfer made for it, and no
\* request is in progress.
C29_Witness ==
  /\ transferEvent = Some("transfer unknown")
  /\ out = Response(200, "")
  /\ \A r \in Slots : reqs[r].pc \in {"idle", "done"}
  /\ Exists(A1) /\ Doc(A1).refundTransferCode = Some(TransferCode)
  /\ ~Unmatched(TransferCode) /\ Unmatched(CodeIn("transfer unknown"))

----------------------------------------------------------------------------
(* C30 *)

\* C30: a signature-valid transfer event whose status is not success, with a
\* transfer code an application holds, is answered 200, ends in the step that
\* receives it, and changes no application.
C30_FailedTransferEventChangesNothing ==
  [][\A r \in Slots : \A w \in WebhookRequests :
       (/\ w[1] = "transfer failed"
        /\ SignatureGenuine(w[1], w[2])
        /\ ~Unmatched(CodeIn(w[1]))
        /\ WebhookReceive(r, w[1], w[2]))
         => /\ out' = Response(200, "")
            /\ reqs'[r] = Done
            /\ apps' = apps]_vars

\* The transfer of the first request stamped the application, the failed
\* event for its code was the last transfer event delivered, no request is in
\* progress, and the application has the transfer's stamp and fields still.
C30_Witness ==
  /\ transferEvent = Some("transfer failed")
  /\ out = Response(200, "")
  /\ \A r \in Slots : reqs[r].pc \in {"idle", "done"}
  /\ Exists(A1)
  /\ Doc(A1).refundTransferCode = Some(TransferCode)
  /\ Doc(A1).refundedAt = Some(1)
  /\ Doc(A1).refundAmount = Some(Whole(200))

----------------------------------------------------------------------------
(* C31 *)

\* The raw bodies that are malformed: no JSON, no data, a reference without
\* the APP- tag, a reference whose identifier is no ObjectId, and a reference
\* to an application that does not exist.
Malformed(raw) ==
  \/ raw \in {"not json", "{}", "charge no tag", "charge bad id"}
  \/ raw = "charge unknown app" /\ ~Exists(A2)

\* C31: a signature-valid webhook with a malformed payload ends in the step
\* that receives it, without an error raised out of the handler, and changes
\* no Application, no User and no Message.
C31_MalformedWebhookDropped ==
  [][\A r \in Slots : \A w \in WebhookRequests :
       (/\ SignatureGenuine(w[1], w[2])
        /\ Malformed(w[1])
        /\ WebhookReceive(r, w[1], w[2]))
         => /\ reqs'[r] = Done
            /\ UNCHANGED <<apps, users, messages>>]_vars

----------------------------------------------------------------------------
(* C32 *)

\* C32: the step of a confirmation that follows its save of the application,
\* the update of the user, leaves the applications as they are whether it
\* succeeds or fails, and a verify call is answered verified: true by it.
C32_UserUpdateNeverFailsConfirmation ==
  [][\A r \in Slots :
       (/\ reqs[r].pc = "saveUser"
        /\ reqs[r].kind \in {"webhook", "verify"}
        /\ reqs'[r] # reqs[r])
         => /\ apps' = apps
            /\ reqs[r].kind = "verify" => out' = Response(200, "verified: true")]_vars

----------------------------------------------------------------------------
(* C33 *)

\* What the confirmation logged as e stores on a fresh application: a charge
\* of a saved card stores its reference and the fee, a webhook or a verify
\* call the transaction's id and amount.
StoredBy(e) ==
  IF e.via = "card"
  THEN [paymentTransactionId |-> e.data.reference, amountPaid |-> Some(Whole(350))]
  ELSE [paymentTransactionId |-> ExpectedTxId(e.data), amountPaid |-> ExpectedAmount(e.data)]

\* C33: an application that a charge of a saved card has written to, before
\* or after a webhook or a verify call, is in a paid status with the
\* transaction id and the amount that the first of these writes stored.
C33_CardRaceFirstWriterWins ==
  \A id \in ObjectIds :
    (Exists(id) /\ \E i \in 1..Len(confirmLog[id]) : confirmLog[id][i].via = "card")
      => /\ Doc(id).status \in PaidStatuses
         /\ Doc(id).paymentTransactionId = StoredBy(confirmLog[id][1]).paymentTransactionId
         /\ Doc(id).amountPaid = StoredBy(confirmLog[id][1]).amountPaid

----------------------------------------------------------------------------
(* C34 *)

\* The reference names an application that exists and is owned by another
\* user than the caller.
NamesApplicationOfAnother(user, reference) ==
  /\ IsSome(reference)
  /\ StartsWithAPP(Val(reference))
  /\ Exists(ExtractApplicationId(Val(reference)))
  /\ Doc(ExtractApplicationId(Val(reference))).userId # user

\* C34: a verify call whose reference names another user's application ends
\* in the step that receives it and changes no application and no user; and
\* every write of a verify call is to an application owned by its caller and
\* to the caller's own stored authorization.
C34_VerifyChangesOnlyOwnApplication ==
  [][\A r \in Slots :
       /\ \A v \in VerifyRequests :
            (NamesApplicationOfAnother(v[1], v[2]) /\ VerifyPayment(r, v[1], v[2], v[3]))
              => reqs'[r] = Done /\ UNCHANGED <<apps, users>>
       /\ (/\ reqs[r].pc \in {"save", "saveUser"}
           /\ reqs[r].kind = "verify"
           /\ reqs'[r] # reqs[r])
            => /\ \A id \in ObjectIds :
                    apps'[id] # apps[id] => id = reqs[r].id /\ Doc(id).userId = reqs[r].user
               /\ \A u \in Users : users'[u] # users[u] => u = reqs[r].user]_vars

\* Another user's verify call with the paid reference of the first user's
\* application was answered, and the application is pending and unconfirmed.
C34_Witness ==
  /\ out = Response(200, "verified: true")
  /\ Exists(A1) /\ Doc(A1).userId = U1 /\ Doc(A1).status = "pending_payment"
  /\ confirmLog[A1] = <<>>
  /\ users = NoCards

----------------------------------------------------------------------------
(* C35 *)

\* The five statuses the claim allows for a status update.
FiveStatuses == {"submitted", "under_review", "shortlisted", "rejected", "accepted"}

\* C35: no step takes a stored application whose status is not
\* pending_payment to pending_payment, and a status update whose status is
\* missing, pending_payment or outside the five statuses is answered 400 and
\* changes no application, user or message.
C35_NeverBackToPending ==
  [][/\ \A id \in ObjectIds :
          (Exists(id) /\ Doc(id).status # "pending_payment" /\ IsSome(apps'[id]))
            => Val(apps'[id]).status # "pending_payment"
     /\ \A r \in Slots : \A s \in StatusRequests :
          (AdminSetStatus(r, s[1], s[2]) /\ (~IsSome(s[2]) \/ Val(s[2]) \notin FiveStatuses))
            => /\ out' = Response(400, "Invalid status")
               /\ UNCHANGED <<apps, users, messages>>]_vars

\* An application confirmed by a payment and then moved on by the admin, and a
\* status update answered as invalid.
C35_Witness ==
  /\ out = Response(400, "Invalid status")
  /\ Exists(A1) /\ Doc(A1).status = "accepted"
  /\ confirmLog[A1] # <<>>

----------------------------------------------------------------------------
(* C36 *)

\* C36: when a sweep sends the reminder for an application, the application
\* is stored with status pending_payment.
C36_ReminderOnlyWhilePending ==
  [][\A s \in SweepIds : \A emailResult \in EmailResults :
       SweepSend(s, emailResult)
         => /\ Exists(Head(sweeps[s].todo))
            /\ Doc(Head(sweeps[s].todo)).status = "pending_payment"]_vars

----------------------------------------------------------------------------
(* C37 *)

\* C37: a step of a sweep (the find, the count, the send, the save of the
\* message) leaves every application and every user as stored, and leaves
\* the requests in progress and the record of the confirmations alone.
C37_SweepWritesNoApplication ==
  [][(sweeps' # sweeps \/ messages' # messages \/ lastEmail' # lastEmail)
       => UNCHANGED <<apps, users, reqs, out, confirmLog>>]_vars

\* A sweep has sent the reminder for the application and is about to record
\* it, while a delivery has confirmed the application and is still in
\* progress.
C37_Witness ==
  /\ \E s \in SweepIds :
       sweeps[s].pc = "save" /\ Head(sweeps[s].todo) = A1
  /\ \E r \in Slots : reqs[r].pc = "saveUser"
  /\ Exists(A1) /\ Doc(A1).status = "submitted"
  /\ Len(confirmLog[A1]) = 1
  /\ messages[A1] = 0

----------------------------------------------------------------------------
(* C38 *)

\* C38: the identifier the webhook takes from the reference APP-<id>-<t>, and
\* the identifier verify-payment takes from it, are both exactly id, for
\* every id without '-' and every t.
C38_ExtractReturnsId ==
  /\ IsSome(paymentLink.reference)
       => Val(paymentLink.reference) =
            <<"A", "P", "P", "-">> \o paymentLink.id \o <<"-">> \o ToDigits(paymentLink.millis)
  /\ IsSome(paymentLink.webhook) => Val(paymentLink.webhook).applicationId = paymentLink.id
  /\ IsSome(paymentLink.verify) => Val(paymentLink.verify).applicationId = paymentLink.id
  /\ (IsSome(paymentLink.webhook) /\ IsSome(paymentLink.verify))
       => Val(paymentLink.webhook).applicationId = Val(paymentLink.verify).applicationId

\* Both paths have taken the identifier from a reference whose identifier
\* ends in a digit and whose time has two digits.
C38_Witness ==
  /\ paymentLink.id = <<"P", "a", "1">>
  /\ paymentLink.millis = 15
  /\ IsSome(paymentLink.webhook)
  /\ IsSome(paymentLink.verify)

----------------------------------------------------------------------------
(* C39 *)

\* C39: for an integer fee F initialized at the gateway as F * 100, the
\* amountPaid the webhook stores, the one verify-payment stores and the one
\* the saved-card charge stores are each F.
C39_AmountPaidIsFee ==
  (IsSome(paymentLink.fee) /\ Val(paymentLink.fee).cents = 0)
    => /\ IsSome(paymentLink.amountInSmallest)
            => Val(paymentLink.amountInSmallest) = Val(paymentLink.fee).units * 100
       /\ IsSome(paymentLink.webhook) => Val(paymentLink.webhook).amountPaid = paymentLink.fee
       /\ IsSome(paymentLink.verify) => Val(paymentLink.verify).amountPaid = paymentLink.fee
       /\ IsSome(paymentLink.card) => Val(paymentLink.card).amountPaid = paymentLink.fee

\* A fee of 350 has been confirmed on the three paths.
C39_Witness ==
  /\ paymentLink.fee = Some([units |-> 350, cents |-> 0])
  /\ paymentLink.amountInSmallest = Some(35000)
  /\ IsSome(paymentLink.webhook)
  /\ IsSome(paymentLink.verify)
  /\ IsSome(paymentLink.card)

====
